---- MODULE Spec2Model ----
(***************************************************************************)
(* State-machine model of the Tetris game-state engine: Tetromino,         *)
(* TetrisBoard and TetrisGame of tetris_game.py with the tables of         *)
(* constants.py, the planner of cpu_ai.py and the CPU branch of            *)
(* GameManager.update_gameplay.  Python lists are 0-based, TLA+ sequences  *)
(* 1-based: grid cell (x, y) of the source is grid[y + 1][x + 1] here.     *)
(***************************************************************************)
EXTENDS Integers, Sequences, FiniteSets, TLC

VARIABLES
    game,      \* the TetrisGame object (all its fields)
    events,    \* the dict returned by the last TetrisGame.update call
    hung,      \* TRUE when a call entered a loop that never ends
    now,       \* the wall clock, time.time() * 1000
    call,      \* the last call made on the session and its arguments
    lastLock,  \* log of the last _lock_piece of the last call, if it locked
    calls,     \* number of calls made so far
    cpu,       \* the AdaptiveCPU controller of a computer-controlled session
    manager    \* the GameManager: its state and the sessions of players 2 and 3

vars == <<game, events, hung, now, call, lastLock, calls, cpu, manager>>

----------------------------------------------------------------------------
(* constants.py *)

BOARD_WIDTH == 10
BOARD_HEIGHT == 20
INPUT_INTERVAL_MS == 120
DROP_INTERVAL_MS == 800
MIN_DROP_INTERVAL == 50

None == "None"

Kinds == {"I", "O", "T", "S", "Z", "J", "L"}

\* one string of the source per row, spelled character by character
TETROMINOS ==
  [ I |-> [ shape |-> <<
              << <<".",".",".",".">>, <<"I","I","I","I">>, <<".",".",".",".">>, <<".",".",".",".">> >>,
              << <<".",".","I",".">>, <<".",".","I",".">>, <<".",".","I",".">>, <<".",".","I",".">> >>,
              << <<".",".",".",".">>, <<".",".",".",".">>, <<"I","I","I","I">>, <<".",".",".",".">> >>,
              << <<".","I",".",".">>, <<".","I",".",".">>, <<".","I",".",".">>, <<".","I",".",".">> >> >>,
            color |-> "CYAN", spawn |-> <<3, 0>> ],
    O |-> [ shape |-> <<
              << <<".","O","O",".">>, <<".","O","O",".">>, <<".",".",".",".">>, <<".",".",".",".">> >>,
              << <<".","O","O",".">>, <<".","O","O",".">>, <<".",".",".",".">>, <<".",".",".",".">> >>,
              << <<".","O","O",".">>, <<".","O","O",".">>, <<".",".",".",".">>, <<".",".",".",".">> >>,
              << <<".","O","O",".">>, <<".","O","O",".">>, <<".",".",".",".">>, <<".",".",".",".">> >> >>,
            color |-> "YELLOW", spawn |-> <<3, 0>> ],
    T |-> [ shape |-> <<
              << <<".","T",".",".">>, <<".","T","T",".">>, <<".",".","T",".">>, <<".",".",".",".">> >>,
              << <<".","T","T",".">>, <<".",".","T",".">>, <<".","T","T",".">>, <<".",".",".",".">> >>,
              << <<".",".","T",".">>, <<".",".","T",".">>, <<".",".","T",".">>, <<".",".",".",".">> >>,
              << <<".",".",".",".">>, <<".",".",".",".">>, <<".",".",".",".">>, <<".",".",".",".">> >> >>,
            color |-> "PURPLE", spawn |-> <<3, 0>> ],
    S |-> [ shape |-> <<
              << <<".","S","S",".">>, <<".",".","S",".">>, <<".",".",".",".">>, <<".",".",".",".">> >>,
              << <<"S","S",".",".">>, <<".",".","S",".">>, <<".","S","S",".">>, <<".",".",".",".">> >>,
              << <<".",".",".",".">>, <<".","S","S",".">>, <<"S","S",".",".">>, <<".",".",".",".">> >>,
              << <<".",".",".",".">>, <<".",".",".",".">>, <<".",".",".",".">>, <<".",".",".",".">> >> >>,
            color |-> "GREEN", spawn |-> <<3, 0>> ],
    Z |-> [ shape |-> <<
              << <<"Z","Z",".",".">>, <<".",".","Z",".">>, <<".",".",".",".">>, <<".",".",".",".">> >>,
              << <<".","Z","Z",".">>, <<".","Z","Z",".">>, <<"Z","Z",".",".">>, <<".",".",".",".">> >>,
              << <<".",".",".",".">>, <<".","Z",".",".">>, <<".","Z","Z",".">>, <<".",".",".",".">> >>,
              << <<".",".",".",".">>, <<".",".",".",".">>, <<".",".",".",".">>, <<".",".",".",".">> >> >>,
            color |-> "RED", spawn |-> <<3, 0>> ],
    J |-> [ shape |-> <<
              << <<"J",".",".",".">>, <<".","J","J",".">>, <<".",".","J",".">>, <<".",".",".",".">> >>,
              << <<"J","J","J",".">>, <<".",".","J",".">>, <<"J","J","J",".">>, <<".",".",".",".">> >>,
              << <<".",".",".",".">>, <<".",".","J",".">>, <<".",".",".","J">>, <<".",".",".",".">> >>,
              << <<".",".",".",".">>, <<".",".",".",".">>, <<".",".",".",".">>, <<".",".",".",".">> >> >>,
            color |-> "BLUE", spawn |-> <<3, 0>> ],
    L |-> [ shape |-> <<
              << <<".",".","L",".">>, <<".","L",".",".">>, <<".",".",".",".">>, <<".",".",".",".">> >>,
              << <<"L","L","L",".">>, <<".","L",".",".">>, <<".",".","L",".">>, <<".",".",".",".">> >>,
              << <<".",".",".",".">>, <<".","L","L",".">>, <<"L","L","L",".">>, <<".",".",".",".">> >>,
              << <<".",".",".",".">>, <<".",".",".",".">>, <<".",".",".",".">>, <<".",".",".",".">> >> >>,
            color |-> "ORANGE", spawn |-> <<3, 0>> ] ]

GARBAGE == "GRAY"

Off(dx, dy) == <<dx, dy>>

WALL_KICK_DATA ==
  [ JLSTZ |-> [ k \in {<<0,1>>, <<1,0>>, <<1,2>>, <<2,1>>, <<2,3>>, <<3,2>>, <<3,0>>, <<0,3>>} |->
        CASE k = <<0,1>> -> << Off(0,0), Off(-1,0), Off(-1,1),  Off(0,-2), Off(-1,-2) >>
          [] k = <<1,0>> -> << Off(0,0), Off(1,0),  Off(1,-1),  Off(0,2),  Off(1,2) >>
          [] k = <<1,2>> -> << Off(0,0), Off(1,0),  Off(1,-1),  Off(0,2),  Off(1,2) >>
          [] k = <<2,1>> -> << Off(0,0), Off(-1,0), Off(-1,1),  Off(0,-2), Off(-1,-2) >>
          [] k = <<2,3>> -> << Off(0,0), Off(1,0),  Off(1,1),   Off(0,-2), Off(1,-2) >>
          [] k = <<3,2>> -> << Off(0,0), Off(-1,0), Off(-1,-1), Off(0,2),  Off(-1,2) >>
          [] k = <<3,0>> -> << Off(0,0), Off(-1,0), Off(-1,-1), Off(0,2),  Off(-1,2) >>
          [] k = <<0,3>> -> << Off(0,0), Off(1,0),  Off(1,1),   Off(0,-2), Off(1,-2) >> ],
    I |-> [ k \in {<<0,1>>, <<1,0>>, <<1,2>>, <<2,1>>, <<2,3>>, <<3,2>>, <<3,0>>, <<0,3>>} |->
        CASE k = <<0,1>> -> << Off(0,0), Off(-2,0), Off(1,0),  Off(-2,-1), Off(1,2) >>
          [] k = <<1,0>> -> << Off(0,0), Off(2,0),  Off(-1,0), Off(2,1),   Off(-1,-2) >>
          [] k = <<1,2>> -> << Off(0,0), Off(-1,0), Off(2,0),  Off(-1,2),  Off(2,-1) >>
          [] k = <<2,1>> -> << Off(0,0), Off(1,0),  Off(-2,0), Off(1,-2),  Off(-2,1) >>
          [] k = <<2,3>> -> << Off(0,0), Off(2,0),  Off(-1,0), Off(2,1),   Off(-1,-2) >>
          [] k = <<3,2>> -> << Off(0,0), Off(-2,0), Off(1,0),  Off(-2,-1), Off(1,2) >>
          [] k = <<3,0>> -> << Off(0,0), Off(1,0),  Off(-2,0), Off(1,-2),  Off(-2,1) >>
          [] k = <<0,3>> -> << Off(0,0), Off(-1,0), Off(2,0),  Off(-1,2),  Off(2,-1) >> ] ]

SCORE_VALUES == [SINGLE |-> 100, DOUBLE |-> 300, TRIPLE |-> 500, TETRIS |-> 800,
                 SOFT_DROP |-> 1, HARD_DROP |-> 2]

HUMAN == "human"
CPU == "cpu"
OFF == "off"

\* input_manager.Action: the seven actions TetrisGame debounces
MOVE_LEFT == "move_left"
MOVE_RIGHT == "move_right"
SOFT_DROP == "soft_drop"
HARD_DROP == "hard_drop"
ROTATE_CW == "rotate_cw"
ROTATE_CCW == "rotate_ccw"
HOLD == "hold"
Action == {MOVE_LEFT, MOVE_RIGHT, SOFT_DROP, HARD_DROP, ROTATE_CW, ROTATE_CCW, HOLD}

----------------------------------------------------------------------------
(* class Tetromino *)

Tetromino(shape_type, x, y) == [type |-> shape_type, x |-> x, y |-> y, rotation |-> 0]

\* the value standing for Python's None in a piece-valued field
NoPiece == [type |-> None, x |-> 0, y |-> 0, rotation |-> 0]

get_shape(piece) == TETROMINOS[piece.type].shape[piece.rotation + 1]

color(piece) == TETROMINOS[piece.type].color

\* the two loops of get_blocks over one shape: the (col_idx, row_idx) of the
\* cells that are neither '.' nor ' '
ShapeCells(shape) ==
    { <<q[2] - 1, q[1] - 1>> :
        q \in { rc \in (1..4) \X (1..4) : shape[rc[1]][rc[2]] # "." /\ shape[rc[1]][rc[2]] # " " } }

\* ShapeCells of every kind and rotation state, computed once
CellsOf == [k \in Kinds |-> [r \in 0..3 |-> ShapeCells(TETROMINOS[k].shape[r + 1])]]

get_blocks(piece) ==
    { <<piece.x + b[1], piece.y + b[2]>> : b \in CellsOf[piece.type][piece.rotation] }

----------------------------------------------------------------------------
(* class TetrisBoard; a board is its grid, a list of rows *)

EmptyRow == [x \in 1..BOARD_WIDTH |-> None]

TetrisBoard == [y \in 1..BOARD_HEIGHT |-> EmptyRow]

\* an is_valid_position that also rejects cells above the grid
ValidInsideGridOnly(grid, piece) ==
    \A b \in get_blocks(piece) :
        /\ ~(b[1] < 0 \/ b[1] >= BOARD_WIDTH \/ b[2] >= BOARD_HEIGHT \/ b[2] < 0)
        /\ grid[b[2] + 1][b[1] + 1] = None

is_valid_position(grid, piece) ==
    \A b \in get_blocks(piece) :
        /\ ~(b[1] < 0 \/ b[1] >= BOARD_WIDTH \/ b[2] >= BOARD_HEIGHT)
        /\ ~(b[2] >= 0 /\ grid[b[2] + 1][b[1] + 1] # None)

place_piece(grid, piece) ==
    LET blocks == get_blocks(piece)
    IN  [y \in 1..Len(grid) |->
            [x \in 1..Len(grid[y]) |->
                IF /\ <<x - 1, y - 1>> \in blocks
                   /\ 0 <= y - 1 /\ y - 1 < BOARD_HEIGHT /\ 0 <= x - 1 /\ x - 1 < BOARD_WIDTH
                THEN color(piece) ELSE grid[y][x]]]

RowFull(row) == \A x \in 1..Len(row) : row[x] # None

\* the list cleared_lines built by the first loop, ascending
RECURSIVE FullRowsFrom(_, _)
FullRowsFrom(grid, y) ==
    IF y >= BOARD_HEIGHT THEN << >>
    ELSE (IF RowFull(grid[y + 1]) THEN <<y>> ELSE << >>) \o FullRowsFrom(grid, y + 1)

DelRow(grid, y) == SubSeq(grid, 1, y) \o SubSeq(grid, y + 2, Len(grid))

\* the second loop: for y in reversed(cleared_lines): del grid[y]; insert(0, empty)
RECURSIVE RemoveRows(_, _, _)
RemoveRows(grid, cleared, i) ==
    IF i = 0 THEN grid
    ELSE RemoveRows(<<EmptyRow>> \o DelRow(grid, cleared[i]), cleared, i - 1)

\* a clear_lines that collects the full rows from the bottom row up
ClearLinesBottomUp(grid) ==
    LET cleared_lines == FullRowsFrom(grid, 0)
    IN  [grid |-> RemoveRows(grid, cleared_lines, Len(cleared_lines)),
         cleared_lines |-> [i \in 1..Len(cleared_lines) |->
                               cleared_lines[Len(cleared_lines) + 1 - i]]]

clear_lines(grid) ==
    LET cleared_lines == FullRowsFrom(grid, 0)
    IN  [grid |-> RemoveRows(grid, cleared_lines, Len(cleared_lines)),
         cleared_lines |-> cleared_lines]

Min(a, b) == IF a < b THEN a ELSE b
Max(a, b) == IF a > b THEN a ELSE b

GarbageLine(hole_pos) == [x \in 1..BOARD_WIDTH |-> IF x - 1 = hole_pos THEN None ELSE GARBAGE]

\* holes[i] is the value random.randint returns for the i-th new row
add_garbage_lines(grid, count, holes) ==
    IF count <= 0 THEN grid
    ELSE SubSeq(grid, Min(count, BOARD_HEIGHT) + 1, Len(grid))
           \o [i \in 1..count |-> GarbageLine(holes[i])]

is_game_over(grid) == \E x \in 1..Len(grid[1]) : grid[1][x] # None

----------------------------------------------------------------------------
(* class TetrisGame.  The methods are operators on a call context c:        *)
(*   c.g     the TetrisGame object                                          *)
(*   c.ev    the events dict being accumulated (absent key = FALSE / 0)     *)
(*   c.hung  TRUE once a loop that never ends was entered; what follows it  *)
(*           in the call is never executed                                  *)
(*   c.rnd   the values the successive random.choice calls return, and      *)
(*   c.used  how many of them were consumed                                 *)
(*   c.lock  the log of the last _lock_piece of the call                    *)

NoEvents ==
    [piece_moved |-> FALSE, piece_rotated |-> FALSE, soft_drop |-> FALSE,
     hard_drop |-> FALSE, piece_locked |-> FALSE, piece_held |-> FALSE,
     lines_cleared |-> 0, cleared_line_indices |-> << >>, level_up |-> FALSE]

NoLock == [n |-> 0, piece |-> NoPiece, before |-> << >>, cleared |-> << >>, level |-> 0,
           over |-> FALSE]

NoStats == [pieces_placed |-> 0, singles |-> 0, doubles |-> 0, triples |-> 0,
            tetrises |-> 0, t_spins |-> 0, garbage_sent |-> 0, garbage_received |-> 0]

AtSpawn(piece_type, spawn) == Tetromino(piece_type, spawn[1], spawn[2])

generate_next_piece(c) ==
    [c EXCEPT !.g.next_piece = AtSpawn(c.rnd[c.used + 1], TETROMINOS[c.rnd[c.used + 1]].spawn),
              !.used = @ + 1]

\* the loop of _update_ghost_piece: while valid: y += 1.  A piece that is
\* still valid at y >= height has no cell at all (every cell of a piece has
\* y >= piece.y), is valid at every y, and the loop never ends.
RECURSIVE DropWhileValid(_, _)
DropWhileValid(grid, piece) ==
    IF ~is_valid_position(grid, piece) THEN [piece |-> piece, ends |-> TRUE]
    ELSE IF piece.y >= BOARD_HEIGHT THEN [piece |-> piece, ends |-> FALSE]
    ELSE DropWhileValid(grid, [piece EXCEPT !.y = @ + 1])

\* after the loop: ghost.y -= 1, if the loop d ended
GhostAfterLoop(c, d) ==
    IF d.ends THEN [c EXCEPT !.g.ghost_piece = [d.piece EXCEPT !.y = @ - 1]]
    ELSE [c EXCEPT !.hung = TRUE]

update_ghost_piece(c) ==
    IF c.hung THEN c
    ELSE IF c.g.current_piece = NoPiece THEN [c EXCEPT !.g.ghost_piece = NoPiece]
    ELSE GhostAfterLoop(c, DropWhileValid(c.g.board, c.g.current_piece))

\* the last statement of _spawn_piece: the game-over check
SpawnCheck(c) ==
    IF c.hung THEN c
    ELSE IF ~is_valid_position(c.g.board, c.g.current_piece)
         THEN [c EXCEPT !.g.game_over = TRUE]
         ELSE c

\* a _spawn_piece that leaves can_hold as it was
SpawnKeepsHold(c) == SpawnCheck(update_ghost_piece(c))

\* _spawn_piece after current_piece = next_piece and _generate_next_piece
SpawnReady(c) == SpawnCheck(update_ghost_piece([c EXCEPT !.g.can_hold = TRUE]))

spawn_piece(c) ==
    IF c.hung THEN c
    ELSE SpawnReady(generate_next_piece([c EXCEPT !.g.current_piece = c.g.next_piece]))

\* a _can_perform_action that lets every asserted action through
CanAlwaysPerform(g, action, current_time) == current_time - g.last_move_time[action] >= 0

can_perform_action(g, action, current_time) ==
    current_time - g.last_move_time[action] >= INPUT_INTERVAL_MS

Moved(piece, dx, dy) == [piece EXCEPT !.x = @ + dx, !.y = @ + dy]

\* the value _try_move returns
try_move_ok(c, dx, dy) ==
    /\ c.g.current_piece # NoPiece
    /\ is_valid_position(c.g.board, Moved(c.g.current_piece, dx, dy))

try_move(c, dx, dy) ==
    IF c.hung \/ ~try_move_ok(c, dx, dy) THEN c
    ELSE update_ghost_piece([c EXCEPT !.g.current_piece = Moved(@, dx, dy)])

try_move_down_ok(c) == try_move_ok(c, 0, 1)
try_move_down(c) == try_move(c, 0, 1)

new_rotation(piece, clockwise) == (piece.rotation + (IF clockwise THEN 1 ELSE -1)) % 4

\* WALL_KICK_DATA.get(piece_group, {}).get(kick_key, [(0, 0)])
KickList(table, piece_group, kick_key) ==
    IF piece_group \in DOMAIN table /\ kick_key \in DOMAIN table[piece_group]
    THEN table[piece_group][kick_key]
    ELSE << Off(0, 0) >>

\* the kick list _try_rotate selects
kicks(piece, clockwise) ==
    KickList(WALL_KICK_DATA, IF piece.type = "I" THEN "I" ELSE "JLSTZ",
             <<piece.rotation, new_rotation(piece, clockwise)>>)

Kicked(piece, clockwise, k) ==
    [piece EXCEPT !.x = @ + k[1], !.y = @ + k[2], !.rotation = new_rotation(piece, clockwise)]

\* indices of the offsets of ks for which the rotated piece is valid
ValidIn(grid, piece, clockwise, ks) ==
    { i \in 1..Len(ks) : is_valid_position(grid, Kicked(piece, clockwise, ks[i])) }

ValidKicks(grid, piece, clockwise) == ValidIn(grid, piece, clockwise, kicks(piece, clockwise))

\* the value _try_rotate returns
try_rotate_ok(c, clockwise) ==
    /\ c.g.current_piece # NoPiece
    /\ ValidKicks(c.g.board, c.g.current_piece, clockwise) # {}

FirstOf(S) == CHOOSE i \in S : \A j \in S : i <= j

\* a kick loop that keeps going after a valid offset and commits the last one
RotateWithLastValid(c, clockwise, ks) ==
    update_ghost_piece(
        [c EXCEPT !.g.current_piece =
            Kicked(@, clockwise,
                   ks[CHOOSE i \in ValidIn(c.g.board, @, clockwise, ks) :
                         \A j \in ValidIn(c.g.board, @, clockwise, ks) : i >= j])])

\* the first offset of ks that gives a valid position is committed
RotateWith(c, clockwise, ks) ==
    update_ghost_piece(
        [c EXCEPT !.g.current_piece =
            Kicked(@, clockwise, ks[FirstOf(ValidIn(c.g.board, @, clockwise, ks))])])

try_rotate(c, clockwise) ==
    IF c.hung \/ ~try_rotate_ok(c, clockwise) THEN c
    ELSE RotateWith(c, clockwise, kicks(c.g.current_piece, clockwise))

\* the loop of _hard_drop: while self._try_move_down(): drop_distance += 1.
\* Every committed step recomputes the ghost; the recomputations all end or
\* all diverge (they differ in y only), and each overwrites the one before,
\* so the ghost is recomputed once, after the last step.
RECURSIVE DropSteps(_)
DropSteps(c) ==
    IF ~try_move_down_ok(c) THEN c
    ELSE DropSteps([c EXCEPT !.g.current_piece = Moved(@, 0, 1), !.dist = @ + 1])

GhostAfterDrop(c) == IF c.dist > 0 THEN update_ghost_piece(c) ELSE c

\* _hard_drop; the drop distance it returns is c.dist
hard_drop(c) ==
    IF c.hung \/ c.g.current_piece = NoPiece THEN c
    ELSE GhostAfterDrop(DropSteps([c EXCEPT !.dist = 0]))

\* an _update_score_for_lines that forgets the level factor
ScoreIgnoresLevel(g, line_count) ==
    CASE line_count = 1 -> [g EXCEPT !.score = @ + SCORE_VALUES.SINGLE]
      [] line_count = 2 -> [g EXCEPT !.score = @ + SCORE_VALUES.DOUBLE]
      [] line_count = 3 -> [g EXCEPT !.score = @ + SCORE_VALUES.TRIPLE]
      [] line_count = 4 -> [g EXCEPT !.score = @ + SCORE_VALUES.TETRIS]
      [] OTHER -> g

update_score_for_lines(g, line_count) ==
    CASE line_count = 1 -> [g EXCEPT !.score = @ + SCORE_VALUES.SINGLE * g.level]
      [] line_count = 2 -> [g EXCEPT !.score = @ + SCORE_VALUES.DOUBLE * g.level]
      [] line_count = 3 -> [g EXCEPT !.score = @ + SCORE_VALUES.TRIPLE * g.level]
      [] line_count = 4 -> [g EXCEPT !.score = @ + SCORE_VALUES.TETRIS * g.level]
      [] OTHER -> g

update_stats_for_lines(g, line_count) ==
    CASE line_count = 1 -> [g EXCEPT !.stats.singles = @ + 1]
      [] line_count = 2 -> [g EXCEPT !.stats.doubles = @ + 1]
      [] line_count = 3 -> [g EXCEPT !.stats.triples = @ + 1]
      [] line_count = 4 -> [g EXCEPT !.stats.tetrises = @ + 1]
      [] OTHER -> g

LEVEL_SPEED_MULTIPLIER == [num |-> 9, den |-> 10]      \* 0.9

\* Numbers too large for a machine integer are lists of decimal digits, the
\* least significant first; a one-element list may hold the number itself.
\* ds * m + carry:
RECURSIVE TimesDigit(_, _, _)
TimesDigit(ds, m, carry) ==
    IF ds = << >>
    THEN IF carry = 0 THEN << >> ELSE <<carry % 10>> \o TimesDigit(<< >>, m, carry \div 10)
    ELSE <<(ds[1] * m + carry) % 10>> \o TimesDigit(Tail(ds), m, (ds[1] * m + carry) \div 10)

\* ds * m ** n
RECURSIVE TimesPow(_, _, _)
TimesPow(ds, m, n) == IF n = 0 THEN ds ELSE TimesPow(TimesDigit(ds, m, 0), m, n - 1)

\* the number whose digits are ds[i], ds[i + 1], ...
RECURSIVE ValueFrom(_, _)
ValueFrom(ds, i) == IF i > Len(ds) THEN 0 ELSE ds[i] + 10 * ValueFrom(ds, i + 1)

\* int(base * LEVEL_SPEED_MULTIPLIER ** n): base * 9 ** n without its last n
\* decimal digits (the float product of the source has the same integer part
\* for every n)
FloorScaled(base, n) ==
    ValueFrom(TimesPow(<<base>>, LEVEL_SPEED_MULTIPLIER.num, n), n + 1)

\* an _update_drop_speed without the max(MIN_DROP_INTERVAL, ...)
DropSpeedNoFloor(g) ==
    [g EXCEPT !.drop_interval = FloorScaled(DROP_INTERVAL_MS, g.level - 1)]

update_drop_speed(g) ==
    [g EXCEPT !.drop_interval =
        Max(MIN_DROP_INTERVAL, FloorScaled(DROP_INTERVAL_MS, g.level - 1))]

\* "if cleared_lines:" up to the score and statistics updates
LinesScored(g, n) ==
    IF n = 0 THEN g
    ELSE update_stats_for_lines(update_score_for_lines([g EXCEPT !.lines_cleared = @ + n], n), n)

\* a level check that raises the level by the number of lines cleared
LevelPerLine(g, n) ==
    IF n > 0 /\ g.lines_cleared >= g.level * 10
    THEN update_drop_speed([g EXCEPT !.level = @ + n])
    ELSE g

\* the level check nested in "if cleared_lines:"
LevelChecked(g, n) ==
    IF n > 0 /\ g.lines_cleared >= g.level * 10
    THEN update_drop_speed([g EXCEPT !.level = @ + 1])
    ELSE g

LockEvents(ev, cleared, level_up) ==
    [ev EXCEPT !.piece_locked = TRUE,
               !.lines_cleared = IF cleared = << >> THEN @ ELSE Len(cleared),
               !.cleared_line_indices = IF cleared = << >> THEN @ ELSE cleared,
               !.level_up = IF level_up THEN TRUE ELSE @]

\* _lock_piece from the level check on; g is the game after the score update
LockFinish(c, cleared, g) ==
    spawn_piece([c EXCEPT
        !.g = LevelChecked(g, Len(cleared)),
        !.ev = LockEvents(@, cleared, Len(cleared) > 0 /\ g.lines_cleared >= g.level * 10),
        !.lock = [n |-> @.n + 1, piece |-> c.g.current_piece, before |-> c.g.board,
                  cleared |-> cleared, level |-> c.g.level, over |-> c.g.game_over]])

\* _lock_piece after place_piece and clear_lines returned r
LockCleared(c, r) ==
    LockFinish(c, r.cleared_lines,
               LinesScored([c.g EXCEPT !.board = r.grid, !.stats.pieces_placed = @ + 1],
                           Len(r.cleared_lines)))

lock_piece(c) ==
    IF c.hung \/ c.g.current_piece = NoPiece THEN c
    ELSE LockCleared(c, clear_lines(place_piece(c.g.board, c.g.current_piece)))

\* a _hold_piece that forgets to clear can_hold
HoldStaysAvailable(c) == c

\* the last statement of _hold_piece
HoldUsed(c) == IF c.hung THEN c ELSE [c EXCEPT !.g.can_hold = FALSE]

\* a _hold_piece whose swap leaves the piece coming back where the active
\* piece was, in the rotation it had
HoldInPlace(c) ==
    IF c.hung \/ c.g.current_piece = NoPiece \/ ~c.g.can_hold THEN c
    ELSE IF c.g.held_piece = NoPiece
         THEN HoldUsed(spawn_piece([c EXCEPT !.g.held_piece = Tetromino(c.g.current_piece.type, 0, 0)]))
         ELSE HoldUsed(update_ghost_piece(
                  [c EXCEPT !.g.held_piece = Tetromino(c.g.current_piece.type, 0, 0),
                            !.g.current_piece.type = c.g.held_piece.type]))

hold_piece(c) ==
    IF c.hung \/ c.g.current_piece = NoPiece \/ ~c.g.can_hold THEN c
    ELSE IF c.g.held_piece = NoPiece
         THEN HoldUsed(spawn_piece([c EXCEPT !.g.held_piece = Tetromino(c.g.current_piece.type, 0, 0)]))
         ELSE HoldUsed(update_ghost_piece(
                  [c EXCEPT !.g.held_piece = Tetromino(c.g.current_piece.type, 0, 0),
                            !.g.current_piece =
                                AtSpawn(c.g.held_piece.type, TETROMINOS[c.g.held_piece.type].spawn)]))

\* the body of a successful "if" block of _handle_input: the event and the stamp
Stamped(c, action, current_time, event) ==
    IF c.hung THEN c
    ELSE [c EXCEPT !.ev[event] = TRUE, !.g.last_move_time[action] = current_time]

\* a move block that shifts the piece without asking whether the shifted
\* piece is valid
HandleMoveUnchecked(c, input, current_time, action, dx) ==
    IF c.hung \/ action \notin input \/ ~can_perform_action(c.g, action, current_time)
    THEN c
    ELSE Stamped(update_ghost_piece([c EXCEPT !.g.current_piece = Moved(@, dx, 0)]),
                 action, current_time, "piece_moved")

\* one "if input_state.pressed[...]" block of _handle_input for a move
HandleMove(c, input, current_time, action, dx) ==
    IF c.hung \/ action \notin input \/ ~can_perform_action(c.g, action, current_time)
       \/ ~try_move_ok(c, dx, 0)
    THEN c
    ELSE Stamped(try_move(c, dx, 0), action, current_time, "piece_moved")

SoftDropScored(c) == IF c.hung THEN c ELSE [c EXCEPT !.g.score = @ + SCORE_VALUES.SOFT_DROP]

HandleSoftDrop(c, input, current_time) ==
    IF c.hung \/ SOFT_DROP \notin input \/ ~can_perform_action(c.g, SOFT_DROP, current_time)
       \/ ~try_move_down_ok(c)
    THEN c
    ELSE Stamped(SoftDropScored(try_move_down(c)), SOFT_DROP, current_time, "soft_drop")

\* a rotation block that emits the event and stamps the action whatever
\* _try_rotate returned
HandleRotateAlwaysStamps(c, input, current_time, action, clockwise) ==
    IF c.hung \/ action \notin input \/ ~can_perform_action(c.g, action, current_time)
    THEN c
    ELSE Stamped(try_rotate(c, clockwise), action, current_time, "piece_rotated")

HandleRotate(c, input, current_time, action, clockwise) ==
    IF c.hung \/ action \notin input \/ ~can_perform_action(c.g, action, current_time)
       \/ ~try_rotate_ok(c, clockwise)
    THEN c
    ELSE Stamped(try_rotate(c, clockwise), action, current_time, "piece_rotated")

\* a hard drop block that locks without adding the drop points
HardDropLockedUnscored(c) == IF c.hung THEN c ELSE lock_piece(c)

\* score += drop_distance * HARD_DROP, then _lock_piece
HardDropLocked(c) ==
    IF c.hung THEN c
    ELSE lock_piece([c EXCEPT !.g.score = @ + c.dist * SCORE_VALUES.HARD_DROP])

HandleHardDrop(c, input, current_time) ==
    IF c.hung \/ HARD_DROP \notin input \/ ~can_perform_action(c.g, HARD_DROP, current_time)
    THEN c
    ELSE Stamped(HardDropLocked(hard_drop(c)), HARD_DROP, current_time, "hard_drop")

HandleHold(c, input, current_time) ==
    IF c.hung \/ HOLD \notin input
       \/ ~(can_perform_action(c.g, HOLD, current_time) /\ c.g.can_hold)
    THEN c
    ELSE Stamped(hold_piece(c), HOLD, current_time, "piece_held")

\* the seven blocks in the order of the source
handle_input(c, input, current_time) ==
    HandleHold(
      HandleHardDrop(
        HandleRotate(
          HandleRotate(
            HandleSoftDrop(
              HandleMove(
                HandleMove(c, input, current_time, MOVE_LEFT, -1),
                input, current_time, MOVE_RIGHT, 1),
              input, current_time),
            input, current_time, ROTATE_CW, TRUE),
          input, current_time, ROTATE_CCW, FALSE),
        input, current_time),
      input, current_time)

\* the outcomes of the random.random() / random.choice calls of _handle_cpu_move
CpuChoices == {"none", "rotate", "left", "right", "down"}

Flagged(c, event) == IF c.hung THEN c ELSE [c EXCEPT !.ev[event] = TRUE]

handle_cpu_move(c, choice) ==
    CASE choice = "rotate" /\ try_rotate_ok(c, TRUE) -> Flagged(try_rotate(c, TRUE), "piece_rotated")
      [] choice = "left" /\ try_move_ok(c, -1, 0) -> Flagged(try_move(c, -1, 0), "piece_moved")
      [] choice = "right" /\ try_move_ok(c, 1, 0) -> Flagged(try_move(c, 1, 0), "piece_moved")
      [] choice = "down" /\ try_move_down_ok(c) -> Flagged(try_move_down(c), "soft_drop")
      [] OTHER -> c

\* a gravity step that leaves last_drop_time as it was
GravityUnstamped(c, current_time) == c

GravityStamped(c, current_time) ==
    IF c.hung THEN c ELSE [c EXCEPT !.g.last_drop_time = current_time]

\* the "Handle gravity" block of update
Gravity(c, current_time) ==
    IF c.hung \/ ~(current_time - c.g.last_drop_time >= c.g.drop_interval) THEN c
    ELSE IF try_move_down_ok(c)
         THEN GravityStamped(try_move_down(c), current_time)
         ELSE lock_piece(c)

\* an update whose guard tests game_over only
UpdateWhilePaused(c, input, current_time, choice) ==
    IF c.g.game_over THEN c
    ELSE Gravity(IF c.g.mode = HUMAN THEN handle_input(c, input, current_time)
                 ELSE IF c.g.mode = CPU THEN handle_cpu_move(c, choice)
                 ELSE c,
                 current_time)

update(c, input, current_time, choice) ==
    IF c.g.game_over \/ c.g.paused THEN c
    ELSE Gravity(IF c.g.mode = HUMAN THEN handle_input(c, input, current_time)
                 ELSE IF c.g.mode = CPU THEN handle_cpu_move(c, choice)
                 ELSE c,
                 current_time)

\* add_garbage after board.add_garbage_lines
GarbageChecked(c) ==
    IF c.g.current_piece # NoPiece /\ ~is_valid_position(c.g.board, c.g.current_piece)
    THEN [c EXCEPT !.g.game_over = TRUE, !.ret = FALSE]
    ELSE [update_ghost_piece(c) EXCEPT !.ret = TRUE]

\* an add_garbage that rejects lines <= 0 only
GarbageOnFinishedGame(c, lines, holes) ==
    IF lines <= 0 THEN [c EXCEPT !.ret = FALSE]
    ELSE GarbageChecked([c EXCEPT !.g.board = add_garbage_lines(@, lines, holes),
                                  !.g.stats.garbage_received = @ + lines])

add_garbage(c, lines, holes) ==
    IF c.g.game_over \/ lines <= 0 THEN [c EXCEPT !.ret = FALSE]
    ELSE GarbageChecked([c EXCEPT !.g.board = add_garbage_lines(@, lines, holes),
                                  !.g.stats.garbage_received = @ + lines])

\* the fields __init__ and reset assign before the first pieces are generated
Fresh(mode) ==
    [mode |-> mode, board |-> TetrisBoard, score |-> 0, lines_cleared |-> 0, level |-> 1,
     game_over |-> FALSE, paused |-> FALSE,
     current_piece |-> NoPiece, next_piece |-> NoPiece, held_piece |-> NoPiece,
     can_hold |-> TRUE, ghost_piece |-> NoPiece,
     last_drop_time |-> 0, drop_interval |-> DROP_INTERVAL_MS,
     last_move_time |-> [a \in Action |-> 0], stats |-> NoStats]

\* a reset that keeps the statistics of the round before
ResetKeepsStats(c) ==
    spawn_piece(generate_next_piece(
        [c EXCEPT !.g = [Fresh(c.g.mode) EXCEPT !.stats = c.g.stats]]))

reset(c) == spawn_piece(generate_next_piece([c EXCEPT !.g = Fresh(c.g.mode)]))

pause(c) == [c EXCEPT !.g.paused = TRUE]

resume(c, current_time) == [c EXCEPT !.g.paused = FALSE, !.g.last_drop_time = current_time]

----------------------------------------------------------------------------
(* cpu_ai.py: TetrisAI('medium') and AdaptiveCPU.  The weights are tenths,  *)
(* so scores are kept in tenths as integers.                                *)

CPU_MOVE_MS == 400

decision_interval == 500

weights == [height_weight |-> -8, lines_weight |-> 10, holes_weight |-> -5,
            bumpiness_weight |-> -3, well_weight |-> -4]

\* random.uniform(-0.2, 0.2) of _evaluate_position lies within +-randomness tenths
randomness == 2

\* temp_board: TRUE where the grid or the placed piece has a cell
create_temp_board(piece, grid) ==
    [y \in 1..Len(grid) |->
        [x \in 1..Len(grid[y]) |-> grid[y][x] # None \/ <<x - 1, y - 1>> \in get_blocks(piece)]]

all(row) == \A x \in 1..Len(row) : row[x]

count_clearable_lines(board) == Cardinality({y \in 1..Len(board) : all(board[y])})

\* TetrisAI._clear_lines: the rows that are not full, under new empty rows
ai_clear_lines(board) ==
    [i \in 1..(Len(board) - Len(SelectSeq(board, LAMBDA row : ~all(row)))) |->
        [x \in 1..Len(board[1]) |-> FALSE]]
      \o SelectSeq(board, LAMBDA row : ~all(row))

ColumnHeight(board, x) ==
    IF \A y \in 1..Len(board) : ~board[y][x] THEN 0
    ELSE Len(board) - (FirstOf({y \in 1..Len(board) : board[y][x]}) - 1)

get_column_heights(board) == [x \in 1..Len(board[1]) |-> ColumnHeight(board, x)]

RECURSIVE SumSeq(_, _)
SumSeq(s, n) == IF n = 0 THEN 0 ELSE s[n] + SumSeq(s, n - 1)

SumOf(s) == SumSeq(s, Len(s))

calculate_aggregate_height(board) == SumOf(get_column_heights(board))

calculate_holes(board) ==
    Cardinality({ xy \in (1..Len(board[1])) \X (1..Len(board)) :
                    /\ ~board[xy[2]][xy[1]]
                    /\ \E y \in 1..(xy[2] - 1) : board[y][xy[1]] })

Abs(n) == IF n < 0 THEN -n ELSE n

Bumps(heights) == [i \in 1..(Len(heights) - 1) |-> Abs(heights[i] - heights[i + 1])]

calculate_bumpiness(board) == SumOf(Bumps(get_column_heights(board)))

\* min(left_height, right_height) - height, a missing neighbour being float('inf')
WellDepth(heights, i) ==
    (IF i = 1 THEN heights[i + 1]
     ELSE IF i = Len(heights) THEN heights[i - 1]
     ELSE Min(heights[i - 1], heights[i + 1])) - heights[i]

Triangular(well_depth) == IF well_depth > 0 THEN (well_depth * (well_depth + 1)) \div 2 ELSE 0

Wells(heights) == [i \in 1..Len(heights) |-> Triangular(WellDepth(heights, i))]

calculate_wells(board) == SumOf(Wells(get_column_heights(board)))

\* the weighted score of _evaluate_position before the random term; board is
\* the temp board after _clear_lines
WeightedScore(board, lines_cleared) ==
    weights.height_weight * calculate_aggregate_height(board)
      + weights.lines_weight * lines_cleared
      + weights.holes_weight * calculate_holes(board)
      + weights.bumpiness_weight * calculate_bumpiness(board)
      + weights.well_weight * calculate_wells(board)

EvaluateTemp(temp_board) ==
    WeightedScore(ai_clear_lines(temp_board), count_clearable_lines(temp_board))

evaluate_position(piece, grid) == EvaluateTemp(create_temp_board(piece, grid))

is_potentially_valid(piece) ==
    ~(piece.x + Len(get_shape(piece)[1]) < 0 \/ piece.x >= BOARD_WIDTH)

\* the (rotation, x) pairs of the two loops of get_best_move, in loop order
Trials == (0..3) \X (-3..(BOARD_WIDTH + 2))

TestPiece(piece, trial) == [piece EXCEPT !.rotation = trial[1], !.x = trial[2]]

\* "Drop piece to bottom": while is_valid_position(test_piece): test_piece.y += 1
DropTest(grid, piece) == DropWhileValid(grid, piece)

\* test_piece after the loop and test_piece.y -= 1
Landed(d) == [d.piece EXCEPT !.y = @ - 1]

\* the trials that reach _evaluate_position
Scored(g) ==
    { trial \in Trials :
        /\ is_potentially_valid(TestPiece(g.current_piece, trial))
        /\ is_valid_position(g.board, Landed(DropTest(g.board, TestPiece(g.current_piece, trial)))) }

\* get_best_move returns: every trial's drop loop has ended
SearchEnds(g) ==
    \/ g.current_piece = NoPiece
    \/ \A trial \in Trials :
          is_potentially_valid(TestPiece(g.current_piece, trial))
              => DropTest(g.board, TestPiece(g.current_piece, trial)).ends

NoMove == << >>

MoveOf(g, trial) ==
    <<trial[2], Landed(DropTest(g.board, TestPiece(g.current_piece, trial))).y, trial[1]>>

\* score[trial] for the scored trials
ScoresOf(g, scored) ==
    [trial \in scored |->
        evaluate_position(Landed(DropTest(g.board, TestPiece(g.current_piece, trial))), g.board)]

\* a trial can end as best_move when its score plus the largest random term
\* exceeds every other score plus the smallest one
CanWin(score, trial) ==
    \A other \in DOMAIN score : score[trial] + randomness > score[other] - randomness

BestAmong(g, score) ==
    IF score = << >> THEN {NoMove}
    ELSE { MoveOf(g, trial) : trial \in {t \in DOMAIN score : CanWin(score, t)} }

\* the values get_best_move can return when it returns
get_best_move(g) ==
    IF g.current_piece = NoPiece THEN {NoMove}
    ELSE BestAmong(g, ScoresOf(g, Scored(g)))

\* get_best_move as the statements it executes on the objects it is handed.
\* s.g is the TetrisGame it was called with, s.test_piece the object the
\* local name test_piece is bound to, s.alias whether that object is
\* game.current_piece itself (then every write to it is a write to the
\* session), s.hung whether a drop loop never ends.
SearchState(g) == [g |-> g, test_piece |-> NoPiece, alias |-> FALSE, hung |-> FALSE]

\* an assignment to fields of test_piece
SetTest(s, piece) ==
    IF s.alias THEN [s EXCEPT !.test_piece = piece, !.g.current_piece = piece]
    ELSE [s EXCEPT !.test_piece = piece]

\* test_piece = game.current_piece, without the copy
AliasActive(s) == [s EXCEPT !.test_piece = s.g.current_piece, !.alias = TRUE]

\* test_piece = game.current_piece.copy()
CopyActive(s) == [s EXCEPT !.test_piece = s.g.current_piece, !.alias = FALSE]

\* after the drop loop d: test_piece.y -= 1.  _evaluate_position, which
\* follows when the resting position is valid, reads the piece and the grid
\* and writes only lists that _create_temp_board builds anew.
TrialDropped(s, d) ==
    IF d.ends THEN SetTest(s, [d.piece EXCEPT !.y = @ - 1]) ELSE [s EXCEPT !.hung = TRUE]

TrialPlaced(s) ==
    IF ~is_potentially_valid(s.test_piece) THEN s
    ELSE TrialDropped(s, DropWhileValid(s.g.board, s.test_piece))

\* the body of "for x in range(-3, game.board.width + 3)"
TrialAt(s, x) ==
    IF s.hung THEN s
    ELSE TrialPlaced(SetTest(s, [s.test_piece EXCEPT !.x = x, !.y = s.g.current_piece.y]))

RECURSIVE XLoop(_, _)
XLoop(s, x) == IF x >= BOARD_WIDTH + 3 THEN s ELSE XLoop(TrialAt(s, x), x + 1)

\* "test_piece.rotation = RotationState(rotation)" and the loop over x
RotationTrials(s, rotation) ==
    IF s.hung THEN s ELSE XLoop(SetTest(s, [s.test_piece EXCEPT !.rotation = rotation]), -3)

RECURSIVE RotationLoop(_, _)
RotationLoop(s, rotation) ==
    IF rotation >= 4 THEN s
    ELSE RotationLoop(RotationTrials(CopyActive(s), rotation), rotation + 1)

\* the objects as a call get_best_move(game) leaves them
best_move_search(g) ==
    IF g.current_piece = NoPiece THEN SearchState(g) ELSE RotationLoop(SearchState(g), 0)

\* class AdaptiveCPU, with the _last_think_time the coordinator attaches
NoPlan == << >>

AdaptiveCPU ==
    [last_think_time |-> 0, last_decision_time |-> 0, current_plan |-> NoPlan, plan_step |-> 0]

Repeat(a, n) == [i \in 1..n |-> a]

\* a rotation part that only ever turns clockwise
RotationPlanClockwise(rotation_diff) == Repeat("rotate_cw", rotation_diff)

RotationPlan(rotation_diff) ==
    CASE rotation_diff = 1 -> <<"rotate_cw">>
      [] rotation_diff = 2 -> <<"rotate_cw", "rotate_cw">>
      [] rotation_diff = 3 -> <<"rotate_ccw">>
      [] OTHER -> << >>

MovePlan(x_diff) ==
    IF x_diff > 0 THEN Repeat("right", Abs(x_diff))
    ELSE IF x_diff < 0 THEN Repeat("left", Abs(x_diff))
    ELSE << >>

\* best_move is the value get_best_move returned
make_new_plan(p, g, best_move) ==
    IF g.current_piece = NoPiece \/ best_move = NoMove THEN [p EXCEPT !.current_plan = NoPlan]
    ELSE [p EXCEPT !.current_plan =
                       RotationPlan((best_move[3] - g.current_piece.rotation) % 4)
                         \o MovePlan(best_move[1] - g.current_piece.x)
                         \o <<"hard_drop">>,
                   !.plan_step = 0]

PlanDone(p) == p.current_plan = NoPlan \/ p.plan_step >= Len(p.current_plan)

\* what SimpleCPU can answer: None when should_make_move is false, else any
\* entry get_random_move can have in its list
SimpleMoves(g) ==
    IF g.current_piece = NoPiece THEN {None, "none"}
    ELSE {None, "left", "right", "rotate_cw", "soft_drop", "hard_drop"}
            \cup (IF g.can_hold THEN {"hold"} ELSE {})

\* _execute_plan: the controller and the action it returns
execute_plan(p, simple) ==
    IF PlanDone(p) THEN [cpu |-> p, action |-> simple]
    ELSE [cpu |-> [p EXCEPT !.plan_step = @ + 1], action |-> p.current_plan[p.plan_step + 1]]

DecisionDue(p, current_time) == current_time - p.last_decision_time >= decision_interval

\* AdaptiveCPU.update up to _execute_plan
Decided(p, g, current_time, best_move) ==
    IF DecisionDue(p, current_time)
    THEN [make_new_plan(p, g, best_move) EXCEPT !.last_decision_time = current_time]
    ELSE p

\* AdaptiveCPU.update once get_best_move, if called, has returned best_move
cpu_update(p, g, current_time, best_move, simple) ==
    execute_plan(Decided(p, g, current_time, best_move), simple)

\* the snapshot simulate_cpu_input leaves: every action reset, then one set
simulate_cpu_input(action) ==
    CASE action = "left" -> {MOVE_LEFT}
      [] action = "right" -> {MOVE_RIGHT}
      [] action = "soft_drop" -> {SOFT_DROP}
      [] action = "hard_drop" -> {HARD_DROP}
      [] action = "rotate_cw" -> {ROTATE_CW}
      [] action = "rotate_ccw" -> {ROTATE_CCW}
      [] action = "hold" -> {HOLD}
      [] OTHER -> {}

----------------------------------------------------------------------------
(* The environment: what is enumerated for the clock, the input snapshot,  *)
(* the random draws and the garbage calls.                                 *)

StartTime == 1000      \* the clock at construction (any value >= DROP_INTERVAL_MS)
ShortStep == 60        \* a clock advance below INPUT_INTERVAL_MS
LongStep == 800        \* a clock advance of a full initial drop interval

Ctx(g, rnd) == [g |-> g, ev |-> NoEvents, hung |-> FALSE, rnd |-> rnd, used |-> 0,
                lock |-> NoLock, dist |-> 0, ret |-> TRUE]

\* all outcomes of a call F over the draws it consumes (at most three)
Outcomes(F(_), Draw) ==
    LET r0 == F(<<"I", "I", "I">>)
    IN  IF r0.used = 0 THEN {r0}
        ELSE UNION { LET r1 == F(<<k1, "I", "I">>)
                     IN  IF r1.used <= 1 THEN {r1}
                         ELSE UNION { LET r2 == F(<<k1, k2, "I">>)
                                      IN  IF r2.used <= 2 THEN {r2}
                                          ELSE {F(<<k1, k2, k3>>) : k3 \in Draw}
                                      : k2 \in Draw }
                     : k1 \in Draw }

\* the hole columns drawn for count new rows: one column for all rows, or staggered
Holes(count, Cols) ==
    {[i \in 1..count |-> h] : h \in Cols}
        \cup {[i \in 1..count |-> (i - 1) % BOARD_WIDTH]}

NoCall == [op |-> "init", input |-> {}, lines |-> 0, holes |-> << >>, ret |-> TRUE,
           time |-> 0, search |-> "skipped", piece |-> NoPiece]

\* input_manager.InputState()
InputState ==
    [actions |-> [a \in Action |-> FALSE], pressed |-> [a \in Action |-> FALSE],
     released |-> [a \in Action |-> FALSE], last_press_time |-> [a \in Action |-> 0]]

\* no coordinator: the session is driven by direct calls
NoManager == [state |-> None, games |-> << >>, events |-> << >>, attacks |-> << >>,
              input_state |-> InputState]

Commit(r, t, cl) ==
    /\ game' = r.g
    /\ hung' = r.hung
    /\ now' = t
    /\ call' = cl
    /\ lastLock' = r.lock
    /\ calls' = calls + 1
    /\ manager' = manager

\* TetrisGame(player_id, mode): every session __init__ can construct
NewGames(mode, Draw) ==
    {r.g : r \in Outcomes(LAMBDA rnd : reset(Ctx(Fresh(mode), rnd)), Draw)}

InitOf(mode, Draw) ==
    /\ game \in NewGames(mode, Draw)
    /\ events = NoEvents
    /\ hung = FALSE
    /\ now = StartTime
    /\ call = NoCall
    /\ lastLock = NoLock
    /\ calls = 0
    /\ cpu = AdaptiveCPU
    /\ manager = NoManager

UpdateOf(In, Steps, Draw, Choices) ==
    \E input \in In, dt \in Steps, choice \in Choices :
        \E r \in Outcomes(LAMBDA rnd : update(Ctx(game, rnd), input, now + dt, choice), Draw) :
            /\ Commit(r, now + dt, [NoCall EXCEPT !.op = "update", !.input = input, !.time = now + dt])
            /\ events' = r.ev
            /\ cpu' = cpu

AddGarbageOf(Counts, Cols) ==
    \E lines \in Counts :
        \E holes \in Holes(lines, Cols) :
            LET r == add_garbage(Ctx(game, << >>), lines, holes)
            IN  /\ Commit(r, now, [NoCall EXCEPT !.op = "add_garbage", !.lines = lines,
                                                !.holes = IF game.game_over \/ lines <= 0
                                                          THEN << >> ELSE holes,
                                                !.ret = r.ret, !.time = now])
                /\ events' = events
                /\ cpu' = cpu

\* one frame of GameManager.update_gameplay for the CPU player, from
\* game.update on; p is the controller as the frame leaves it
FrameUpdate(p, input, current_time, search, Draw) ==
    \E choice \in CpuChoices :
        \E r \in Outcomes(LAMBDA rnd : update(Ctx(game, rnd), input, current_time, choice), Draw) :
            /\ Commit(r, current_time,
                      [NoCall EXCEPT !.op = "cpu_frame", !.input = input,
                                     !.time = current_time, !.search = search])
            /\ events' = r.ev
            /\ cpu' = p

\* get_best_move does not return: the frame never completes
FrameHangs(current_time) ==
    /\ UNCHANGED <<game, events, cpu, lastLock, manager>>
    /\ hung' = TRUE
    /\ now' = current_time
    /\ calls' = calls + 1
    /\ call' = [NoCall EXCEPT !.op = "cpu_frame", !.time = current_time, !.search = "diverged"]

\* cpu.update returned u: _last_think_time is set, the action is written into
\* the snapshot, game.update runs
Thought(u, current_time, search, Draw) ==
    FrameUpdate([u.cpu EXCEPT !.last_think_time = current_time],
                IF u.action # None THEN simulate_cpu_input(u.action) ELSE {},
                current_time, search, Draw)

\* the frame when current_time - cpu._last_think_time > CPU_MOVE_MS
ThinkFrame(current_time, Draw) ==
    IF DecisionDue(cpu, current_time) /\ ~SearchEnds(game) THEN FrameHangs(current_time)
    ELSE \E best_move \in (IF DecisionDue(cpu, current_time) THEN get_best_move(game) ELSE {NoMove}) :
           \E simple \in (IF PlanDone(Decided(cpu, game, current_time, best_move))
                          THEN SimpleMoves(game) ELSE {None}) :
              Thought(cpu_update(cpu, game, current_time, best_move, simple), current_time,
                      IF DecisionDue(cpu, current_time) /\ game.current_piece # NoPiece
                      THEN "returned" ELSE "skipped",
                      Draw)

CpuFrameOf(Steps, Draw) ==
    \E dt \in Steps :
        IF now + dt - cpu.last_think_time > CPU_MOVE_MS
        THEN ThinkFrame(now + dt, Draw)
        ELSE FrameUpdate(cpu, {}, now + dt, "skipped", Draw)

----------------------------------------------------------------------------
(* Spec: one human session, every call of the session interface, every     *)
(* single-action input snapshot, three piece kinds, a few calls deep.      *)

MaxCalls == 2

Inputs == {{}} \cup {{a} : a \in Action}

TimeSteps == {ShortStep, LongStep}

GarbageCounts == {0, 4, 17}

HoleCols == {0, 5}

DrawKinds == {"I", "O", "T"}

Init == InitOf(HUMAN, DrawKinds)

Update ==
    /\ ~hung /\ calls < MaxCalls
    /\ UpdateOf(Inputs, TimeSteps, DrawKinds, {"none"})

AddGarbage ==
    /\ ~hung /\ calls < MaxCalls
    /\ AddGarbageOf(GarbageCounts, HoleCols)

Pause ==
    /\ ~hung /\ calls < MaxCalls
    /\ Commit(pause(Ctx(game, << >>)), now, [NoCall EXCEPT !.op = "pause", !.time = now])
    /\ events' = events
    /\ cpu' = cpu

Resume ==
    /\ ~hung /\ calls < MaxCalls
    /\ \E dt \in TimeSteps :
         /\ Commit(resume(Ctx(game, << >>), now + dt), now + dt,
                   [NoCall EXCEPT !.op = "resume", !.time = now + dt])
         /\ events' = events
         /\ cpu' = cpu

Reset ==
    /\ ~hung /\ calls < MaxCalls
    /\ \E r \in Outcomes(LAMBDA rnd : reset(Ctx(game, rnd)), DrawKinds) :
         /\ Commit(r, now, [NoCall EXCEPT !.op = "reset", !.time = now])
         /\ events' = events
         /\ cpu' = cpu

Next == Update \/ AddGarbage \/ Pause \/ Resume \/ Reset

Spec == Init /\ [][Next]_vars

----------------------------------------------------------------------------
(* SpecStack: one human session played deeper on a board that one garbage  *)
(* attack has filled: hold, hard drop and rotation only, three piece kinds, *)
(* frames ShortStep apart.                                                 *)

MaxStackCalls == 5

StackInputs == {{HOLD}, {HARD_DROP}, {ROTATE_CW}}

StackKinds == {"I", "O", "L"}

StackGarbageCounts == {17}

StackHoleCols == {5}

StackInit == InitOf(HUMAN, StackKinds)

StackUpdate ==
    /\ ~hung /\ calls < MaxStackCalls
    /\ UpdateOf(StackInputs, {ShortStep}, StackKinds, {"none"})

StackGarbage ==
    /\ ~hung /\ calls < MaxStackCalls
    /\ game.stats.garbage_received = 0
    /\ AddGarbageOf(StackGarbageCounts, StackHoleCols)

StackNext == StackUpdate \/ StackGarbage

SpecStack == StackInit /\ [][StackNext]_vars

----------------------------------------------------------------------------
(* SpecKick: one human session of rotation requests in both directions on  *)
(* a board that one garbage attack has filled up to the spawn rows.        *)

MaxKickCalls == 4

KickInputs == {{}, {ROTATE_CW}, {ROTATE_CCW}}

KickKinds == {"I", "O", "J"}

KickInit == InitOf(HUMAN, KickKinds)

KickUpdate ==
    /\ ~hung /\ calls < MaxKickCalls
    /\ UpdateOf(KickInputs, TimeSteps, KickKinds, {"none"})

KickGarbage ==
    /\ ~hung /\ calls < MaxKickCalls
    /\ game.stats.garbage_received = 0
    /\ AddGarbageOf(StackGarbageCounts, StackHoleCols)

KickNext == KickUpdate \/ KickGarbage

SpecKick == KickInit /\ [][KickNext]_vars

----------------------------------------------------------------------------
(* SpecCpu: one computer-controlled session driven frame by frame by the   *)
(* coordinator, frames ShortStep or ThinkStep apart, three piece kinds.    *)

MaxCpuCalls == 2

ThinkStep == 450       \* a clock advance between CPU_MOVE_MS and decision_interval

CpuSteps == {ShortStep, ThinkStep}

CpuKinds == {"I", "O", "T"}

CpuInit == InitOf(CPU, CpuKinds)

CpuFrame ==
    /\ ~hung /\ calls < MaxCpuCalls
    /\ game.mode = CPU /\ ~game.game_over
    /\ CpuFrameOf(CpuSteps, CpuKinds)

CpuNext == CpuFrame

SpecCpu == CpuInit /\ [][CpuNext]_vars

----------------------------------------------------------------------------
(* SpecOver: one human session around its terminal and paused states:      *)
(* garbage attacks up to more rows than the board has, rejected garbage     *)
(* calls, pause and resume, and updates on a session that is over or paused. *)

MaxOverCalls == 3

OverInputs == {{}, {MOVE_LEFT}, {ROTATE_CW}, {HARD_DROP}}

OverKinds == {"I", "O"}

OverGarbageCounts == {0, 17, BOARD_HEIGHT + 1}

OverInit == InitOf(HUMAN, OverKinds)

OverUpdate ==
    /\ ~hung /\ calls < MaxOverCalls
    /\ UpdateOf(OverInputs, TimeSteps, OverKinds, {"none"})

OverGarbage ==
    /\ ~hung /\ calls < MaxOverCalls
    /\ AddGarbageOf(OverGarbageCounts, StackHoleCols)

\* the pause request comes with the last frame or ShortStep after it
OverPause ==
    /\ ~hung /\ calls < MaxOverCalls
    /\ \E dt \in {0, ShortStep} :
         /\ Commit(pause(Ctx(game, << >>)), now + dt,
                   [NoCall EXCEPT !.op = "pause", !.time = now + dt])
         /\ events' = events
         /\ cpu' = cpu

OverResume ==
    /\ ~hung /\ calls < MaxOverCalls
    /\ \E dt \in TimeSteps :
         /\ Commit(resume(Ctx(game, << >>), now + dt), now + dt,
                   [NoCall EXCEPT !.op = "resume", !.time = now + dt])
         /\ events' = events
         /\ cpu' = cpu

OverNext == OverUpdate \/ OverGarbage \/ OverPause \/ OverResume

SpecOver == OverInit /\ [][OverNext]_vars

----------------------------------------------------------------------------
(* SpecLevel: one human session late in a game, at any level up to          *)
(* MaxLevel: it has cleared level * 10 - 2 lines one at a time with pieces  *)
(* that gravity locked, and its board is empty again.  An I-piece turned    *)
(* upright and hard-dropped into the gap of 1 to 4 garbage rows clears 1 to *)
(* 4 lines, and 2 or more of them reach the next level.                     *)

MaxLevel == 30

MaxLevelCalls == 3

LevelInputs == {{ROTATE_CW}, {HARD_DROP}}

LevelKinds == {"I"}

LevelGarbageCounts == {1, 2, 3, 4}

\* the fields of a session that reached `level` by single-line clears only
AtLevel(level) ==
    update_drop_speed(
        [Fresh(HUMAN) EXCEPT
            !.level = level,
            !.lines_cleared = level * 10 - 2,
            !.score = SCORE_VALUES.SINGLE * (5 * level * (level - 1) + 8 * level),
            !.stats.singles = level * 10 - 2,
            !.stats.pieces_placed = 25 * level - 5])

LevelInit ==
    /\ \E level \in 1..MaxLevel :
          game \in {r.g : r \in Outcomes(
                      LAMBDA rnd : spawn_piece(generate_next_piece(Ctx(AtLevel(level), rnd))),
                      LevelKinds)}
    /\ events = NoEvents
    /\ hung = FALSE
    /\ now = StartTime
    /\ call = NoCall
    /\ lastLock = NoLock
    /\ calls = 0
    /\ cpu = AdaptiveCPU
    /\ manager = NoManager

LevelUpdate ==
    /\ ~hung /\ calls < MaxLevelCalls
    /\ UpdateOf(LevelInputs, {ShortStep}, LevelKinds, {"none"})

LevelGarbage ==
    /\ ~hung /\ calls < MaxLevelCalls
    /\ game.stats.garbage_received = 0
    /\ AddGarbageOf(LevelGarbageCounts, StackHoleCols)

LevelNext == LevelUpdate \/ LevelGarbage

SpecLevel == LevelInit /\ [][LevelNext]_vars

----------------------------------------------------------------------------
(* SpecValid: Board.is_valid_position asked about pieces of every kind and  *)
(* rotation at positions inside, beside, below and above the grid, on the   *)
(* boards that garbage attacks leave.                                       *)

ProbeColumns == (0 - 3)..(BOARD_WIDTH)

ProbeRows == ((0 - 4)..3) \cup ((BOARD_HEIGHT - 5)..BOARD_HEIGHT)

Probes ==
    { [type |-> k, x |-> x, y |-> y, rotation |-> r] :
        k \in Kinds, x \in ProbeColumns, y \in ProbeRows, r \in 0..3 }

ValidGarbage ==
    /\ call.op # "is_valid_position"
    /\ OverGarbage

\* one call board.is_valid_position(piece); nothing follows it
Probe ==
    /\ ~hung /\ call.op # "is_valid_position"
    /\ \E piece \in Probes :
         call' = [NoCall EXCEPT !.op = "is_valid_position", !.piece = piece, !.time = now,
                                !.ret = is_valid_position(game.board, piece)]
    /\ UNCHANGED <<game, events, hung, now, lastLock, calls, cpu, manager>>

ValidNext == ValidGarbage \/ Probe

SpecValid == OverInit /\ [][ValidNext]_vars

----------------------------------------------------------------------------
(* SpecInput: one human session polled with the empty snapshot, every       *)
(* single-action snapshot and left and right asserted together, frames      *)
(* ShortStep or LongStep                                                    *)
(* apart, before and after one garbage attack that walls the piece in; the  *)
(* pieces are I-pieces, which an upright rotation puts into the gap of the  *)
(* garbage rows.                                                            *)

MaxInputCalls == 3

InputSnapshots == {{}} \cup {{a} : a \in Action} \cup {{MOVE_LEFT, MOVE_RIGHT}}

InputKinds == {"I"}

InputInit == InitOf(HUMAN, InputKinds)

InputUpdate ==
    /\ ~hung /\ calls < MaxInputCalls
    /\ UpdateOf(InputSnapshots, TimeSteps, InputKinds, {"none"})

InputGarbage ==
    /\ ~hung /\ calls < MaxInputCalls
    /\ game.stats.garbage_received = 0
    /\ AddGarbageOf(StackGarbageCounts, StackHoleCols)

InputNext == InputUpdate \/ InputGarbage

SpecInput == InputInit /\ [][InputNext]_vars

----------------------------------------------------------------------------
(* SpecReset: sessions constructed with every pair of piece kinds, played   *)
(* for a few calls (a hold, a hard drop, an attack of more rows than the    *)
(* board has, which ends the game, a pause) and then reset, the reset       *)
(* drawing every pair of kinds again.                                       *)

MaxResetCalls == 3

ResetInputs == {{HOLD}, {HARD_DROP}}

ResetKinds == {"I"}

ResetGarbageCounts == {BOARD_HEIGHT + 1}

ResetInit == InitOf(HUMAN, Kinds)

ResetUpdate ==
    /\ ~hung /\ calls < MaxResetCalls - 1 /\ call.op # "reset"
    /\ UpdateOf(ResetInputs, {LongStep}, ResetKinds, {"none"})

ResetGarbage ==
    /\ ~hung /\ calls < MaxResetCalls - 1 /\ call.op # "reset"
    /\ AddGarbageOf(ResetGarbageCounts, StackHoleCols)

ResetPause ==
    /\ ~hung /\ calls < MaxResetCalls - 1 /\ call.op # "reset"
    /\ Commit(pause(Ctx(game, << >>)), now, [NoCall EXCEPT !.op = "pause", !.time = now])
    /\ events' = events
    /\ cpu' = cpu

\* reset() ends the trace
ResetRound ==
    /\ ~hung /\ calls < MaxResetCalls /\ call.op # "reset"
    /\ \E r \in Outcomes(LAMBDA rnd : reset(Ctx(game, rnd)), Kinds) :
         /\ Commit(r, now, [NoCall EXCEPT !.op = "reset", !.time = now])
         /\ events' = events
         /\ cpu' = cpu

ResetNext == ResetUpdate \/ ResetGarbage \/ ResetPause \/ ResetRound

SpecReset == ResetInit /\ [][ResetNext]_vars

----------------------------------------------------------------------------
(* SpecSearch: get_best_move called on a computer-controlled session whose  *)
(* piece the session's own moves have turned, shifted and lowered, on the   *)
(* empty board and on boards that a garbage attack has filled.              *)

MaxSearchCalls == 4

SearchGarbageCounts == {4, 17}

SearchUpdate ==
    /\ ~hung /\ calls < MaxSearchCalls /\ call.op # "get_best_move"
    /\ UpdateOf({{}}, {ShortStep}, CpuKinds, CpuChoices)

SearchGarbage ==
    /\ ~hung /\ calls < MaxSearchCalls /\ call.op # "get_best_move"
    /\ game.stats.garbage_received = 0
    /\ AddGarbageOf(SearchGarbageCounts, StackHoleCols)

\* the session as the call leaves it
SearchDone(s) ==
    /\ game' = s.g
    /\ hung' = s.hung
    /\ call' = [NoCall EXCEPT !.op = "get_best_move", !.time = now,
                              !.search = IF s.hung THEN "diverged" ELSE "returned"]
    /\ calls' = calls + 1
    /\ UNCHANGED <<events, now, lastLock, cpu, manager>>

\* one call self.ai.get_best_move(game); nothing follows it
Search ==
    /\ ~hung /\ calls < MaxSearchCalls /\ call.op # "get_best_move"
    /\ ~game.game_over
    /\ SearchDone(best_move_search(game))

SearchNext == SearchUpdate \/ SearchGarbage \/ Search

SpecSearch == CpuInit /\ [][SearchNext]_vars

----------------------------------------------------------------------------
(* SpecHold: one human session that starts with an I-piece active and an    *)
(* O-piece queued and draws L-pieces from then on, so that the kind of a    *)
(* piece tells where it came from: holds, hard drops and idle frames,       *)
(* ShortStep or LongStep apart, around one garbage attack.                  *)

MaxHoldCalls == 4

HoldInputs == {{}, {HOLD}, {HARD_DROP}}

HoldKinds == {"L"}

HoldInit ==
    /\ InitOf(HUMAN, {"I", "O"})
    /\ game.current_piece.type = "I"
    /\ game.next_piece.type = "O"

HoldUpdate ==
    /\ ~hung /\ calls < MaxHoldCalls
    /\ UpdateOf(HoldInputs, TimeSteps, HoldKinds, {"none"})

HoldGarbage ==
    /\ ~hung /\ calls < MaxHoldCalls
    /\ game.stats.garbage_received = 0
    /\ AddGarbageOf(StackGarbageCounts, StackHoleCols)

HoldNext == HoldUpdate \/ HoldGarbage

SpecHold == HoldInit /\ [][HoldNext]_vars

----------------------------------------------------------------------------
(* SpecBest: get_best_move called for its value on a computer-controlled    *)
(* session of I-pieces (a kind for which the search always returns), after  *)
(* the session's own moves and gravity have shifted, turned and lowered the *)
(* piece and after one garbage attack.                                      *)

MaxBestCalls == 3

BestKinds == {"I"}

BestInit == InitOf(CPU, BestKinds)

BestUpdate ==
    /\ ~hung /\ calls < MaxBestCalls /\ call.op # "get_best_move"
    /\ UpdateOf({{}}, {ShortStep}, BestKinds, CpuChoices)

BestGarbage ==
    /\ ~hung /\ calls < MaxBestCalls /\ call.op # "get_best_move"
    /\ game.stats.garbage_received = 0
    /\ AddGarbageOf(StackGarbageCounts, StackHoleCols)

\* the tuple (x, y, rotation) get_best_move returned, as the active kind put there
Placement(g, best_move) ==
    IF best_move = NoMove THEN NoPiece
    ELSE [g.current_piece EXCEPT !.x = best_move[1], !.y = best_move[2], !.rotation = best_move[3]]

\* one call self.ai.get_best_move(game) that returns best_move
Best ==
    /\ ~hung /\ calls < MaxBestCalls /\ call.op # "get_best_move"
    /\ ~game.game_over /\ SearchEnds(game)
    /\ \E best_move \in get_best_move(game) :
          call' = [NoCall EXCEPT !.op = "get_best_move", !.time = now, !.search = "returned",
                                 !.piece = Placement(game, best_move)]
    /\ calls' = calls + 1
    /\ UNCHANGED <<game, hung, events, now, lastLock, cpu, manager>>

BestNext == BestUpdate \/ BestGarbage \/ Best

SpecBest == BestInit /\ [][BestNext]_vars

----------------------------------------------------------------------------
(* SpecPlan: _make_new_plan applied to a computer-controlled session of     *)
(* I-pieces whose piece the session's own moves have shifted and turned,    *)
(* for every target column and rotation the search can return.              *)

MaxPlanCalls == 4

\* the tuples (x, y, rotation) get_best_move can hand to the planner
PlanTargets == (-3 .. BOARD_WIDTH - 1) \X {0, BOARD_HEIGHT - 2} \X (0 .. 3)

PlanUpdate ==
    /\ ~hung /\ calls < MaxPlanCalls /\ call.op # "make_new_plan"
    /\ UpdateOf({{}}, {ShortStep}, BestKinds, CpuChoices)

\* _make_new_plan once get_best_move has returned best_move
MakePlan ==
    /\ ~hung /\ calls < MaxPlanCalls /\ call.op # "make_new_plan"
    /\ ~game.game_over
    /\ \E best_move \in PlanTargets :
          /\ cpu' = make_new_plan(cpu, game, best_move)
          /\ call' = [NoCall EXCEPT !.op = "make_new_plan", !.time = now,
                                    !.piece = Placement(game, best_move)]
    /\ calls' = calls + 1
    /\ UNCHANGED <<game, hung, events, now, lastLock, manager>>

PlanNext == PlanUpdate \/ MakePlan

SpecPlan == BestInit /\ [][PlanNext]_vars

----------------------------------------------------------------------------
(* SpecTick: one computer-controlled session of I-pieces driven by the      *)
(* coordinator through frames that are all decision ticks: ThinkStep apart  *)
(* (less than the re-planning interval) or LongStep apart (more than it).   *)

MaxTickCalls == 2

TickSteps == {ThinkStep, LongStep}

TickFrame ==
    /\ ~hung /\ calls < MaxTickCalls
    /\ game.mode = CPU /\ ~game.game_over
    /\ CpuFrameOf(TickSteps, BestKinds)

TickNext == TickFrame

SpecTick == BestInit /\ [][TickNext]_vars

----------------------------------------------------------------------------
(* game_manager.py: the coordinator's gameplay frame over the sessions of  *)
(* all players.  manager.games holds the sessions of players 2 and 3; the  *)
(* session of player 1 is `game`.  Sessions here are HUMAN or OFF, and no   *)
(* snapshot holds PAUSE.                                                    *)

PLAYING == "playing"
GAME_OVER == "game_over"

get_attack_power(lines_cleared) ==
    IF lines_cleared = 2 THEN 1
    ELSE IF lines_cleared = 3 THEN 2
    ELSE IF lines_cleared = 4 THEN 4
    ELSE 0

\* game.add_garbage(lines) returned inside send_garbage_attack's loop
Garbaged(f, target_player, g) ==
    [f EXCEPT !.games[target_player] = g,
              !.attacks[Len(f.attacks)].to = Append(@, target_player)]

RECURSIVE SendLoop(_, _, _, _, _)
SendLoop(f, target_player, attacking_player, lines, Cols) ==
    IF target_player > Len(f.games) THEN {f}
    ELSE IF /\ target_player # attacking_player
            /\ f.games[target_player].mode # OFF
            /\ ~f.games[target_player].game_over
         THEN UNION { SendLoop(Garbaged(f, target_player,
                                        add_garbage(Ctx(f.games[target_player], << >>),
                                                    lines, holes).g),
                               target_player + 1, attacking_player, lines, Cols)
                      : holes \in Holes(lines, Cols) }
         ELSE SendLoop(f, target_player + 1, attacking_player, lines, Cols)

\* a send_garbage_attack that does not pass over the attacking player
SendToEveryPlayer(f, attacking_player, lines, Cols) ==
    SendLoop([f EXCEPT !.attacks = Append(@, [from |-> attacking_player,
                                              lines |-> lines, to |-> << >>])],
             1, 0, lines, Cols)

send_garbage_attack(f, attacking_player, lines, Cols) ==
    SendLoop([f EXCEPT !.attacks = Append(@, [from |-> attacking_player,
                                              lines |-> lines, to |-> << >>])],
             1, attacking_player, lines, Cols)

handle_game_events(f, ev, player_id, Cols) ==
    IF f.hung \/ ev = NoEvents THEN {f}
    ELSE IF ev.lines_cleared > 0 /\ get_attack_power(ev.lines_cleared) > 0
         THEN send_garbage_attack(f, player_id, get_attack_power(ev.lines_cleared), Cols)
         ELSE {f}

\* game.update returned r for player_id
Updated(f, player_id, r) ==
    [f EXCEPT !.games[player_id] = r.g, !.events[player_id] = r.ev, !.hung = r.hung]

\* the outcomes of game.update over the snapshots a human player can hold
HumanUpdates(g, current_time, In, Draw) ==
    UNION { Outcomes(LAMBDA rnd : update(Ctx(g, rnd), input, current_time, "none"), Draw)
            : input \in In }

\* update_gameplay's loop over self.games, from player_id on
RECURSIVE GameLoop(_, _, _, _, _, _)
GameLoop(f, player_id, current_time, In, Draw, Cols) ==
    IF f.hung \/ player_id > Len(f.games) THEN {f}
    ELSE IF f.games[player_id].mode = OFF \/ f.games[player_id].game_over
         THEN GameLoop(f, player_id + 1, current_time, In, Draw, Cols)
         ELSE UNION { UNION { GameLoop(h, player_id + 1, current_time, In, Draw, Cols)
                              : h \in handle_game_events(Updated(f, player_id, r),
                                                         r.ev, player_id, Cols) }
                      : r \in HumanUpdates(f.games[player_id], current_time, In, Draw) }

active_games(games) ==
    {i \in 1..Len(games) : games[i].mode # OFF /\ ~games[i].game_over}

check_game_over(games, state) ==
    IF Cardinality(active_games(games)) <= 1 THEN GAME_OVER ELSE state

\* the frame as update_gameplay enters it
FrameOf(games) ==
    [games |-> games, events |-> [i \in 1..Len(games) |-> NoEvents],
     attacks |-> << >>, hung |-> FALSE]

\* update_gameplay left the sessions as f holds them
FrameDone(f, current_time) ==
    /\ game' = f.games[1]
    /\ manager' = [manager EXCEPT !.state = IF f.hung THEN @
                                             ELSE check_game_over(f.games, @),
                                   !.games = Tail(f.games),
                                   !.events = f.events,
                                   !.attacks = f.attacks]
    /\ events' = f.events[1]
    /\ hung' = f.hung
    /\ now' = current_time
    /\ call' = [NoCall EXCEPT !.op = "update_gameplay", !.time = current_time]
    /\ lastLock' = NoLock
    /\ calls' = calls + 1
    /\ cpu' = cpu

update_gameplay(In, Steps, Draw, Cols) ==
    /\ manager.state = PLAYING
    /\ \E dt \in Steps :
          \E f \in GameLoop(FrameOf(<<game>> \o manager.games), 1, now + dt, In, Draw, Cols) :
              FrameDone(f, now + dt)

\* start_game: one new TetrisGame per player mode
start_game(player_modes, Draw) ==
    /\ \E m \in player_modes :
          /\ {i \in 1..Len(m) : m[i] # OFF} # {}
          /\ \E games \in [1..Len(m) -> UNION {NewGames(mode, Draw) : mode \in {HUMAN, OFF}}] :
                /\ \A i \in 1..Len(m) : games[i].mode = m[i]
                /\ game = games[1]
                /\ manager = [NoManager EXCEPT !.state = PLAYING, !.games = Tail(games)]
    /\ events = NoEvents
    /\ hung = FALSE
    /\ now = StartTime
    /\ call = NoCall
    /\ lastLock = NoLock
    /\ calls = 0
    /\ cpu = AdaptiveCPU

----------------------------------------------------------------------------
(* SpecMatch: a match of two or three human players in progress.  Every    *)
(* running session has a new piece above the garbage rows that earlier     *)
(* attacks of 1, 2 or 4 rows left it, each with its hole in column 5: an    *)
(* upright I-piece hard-dropped into the gap clears 1 to 4 lines, and a    *)
(* session holding 18 rows is topped out by the next row it receives.      *)

MaxMatchFrames == 2

MatchInputs == {{ROTATE_CW}, {HARD_DROP}}

MatchKinds == {"I"}

MatchHoleCols == {5}

MatchAttacks == {<< >>, <<1>>, <<2>>, <<1, 2>>, <<4>>, <<4, 4, 4, 4, 2>>}

MatchModes == {<<HUMAN, HUMAN, HUMAN>>, <<HUMAN, HUMAN, OFF>>,
               <<HUMAN, OFF, HUMAN>>, <<OFF, HUMAN, HUMAN>>}

\* the session after add_garbage was called on it once per entry of lines
RECURSIVE Attacked(_, _, _)
Attacked(g, lines, hole) ==
    IF lines = << >> THEN g
    ELSE Attacked(add_garbage(Ctx(g, << >>), Head(lines),
                              [i \in 1..Head(lines) |-> hole]).g,
                  Tail(lines), hole)

MatchInit ==
    /\ \E m \in MatchModes :
          \E games \in [1..Len(m) -> UNION {NewGames(mode, MatchKinds) : mode \in {HUMAN, OFF}}] :
             \E lines \in [1..Len(m) -> MatchAttacks] :
                /\ \A i \in 1..Len(m) :
                      /\ games[i].mode = m[i]
                      /\ m[i] = OFF => lines[i] = << >>
                      /\ m[i] # OFF => lines[i] # << >>
                /\ game = Attacked(games[1], lines[1], 5)
                /\ manager = [NoManager EXCEPT
                                 !.state = PLAYING,
                                 !.games = [i \in 1..Len(m) - 1 |->
                                               Attacked(games[i + 1], lines[i + 1], 5)]]
    /\ events = NoEvents
    /\ hung = FALSE
    /\ now = StartTime
    /\ call = NoCall
    /\ lastLock = NoLock
    /\ calls = 0
    /\ cpu = AdaptiveCPU

MatchFrame ==
    /\ ~hung /\ calls < MaxMatchFrames
    /\ update_gameplay(MatchInputs, {ShortStep}, MatchKinds, MatchHoleCols)

MatchNext == MatchFrame

SpecMatch == MatchInit /\ [][MatchNext]_vars

----------------------------------------------------------------------------
(* input_manager.py: GamepadManager.update for a player on the keyboard.   *)
(* manager.input_state is the InputState of player 1; keys is the set of   *)
(* actions whose key is down when update runs.                             *)

\* _update_action_state, the fields of one action
ActionState(input_state, action, pressed, current_time, was_pressed) ==
    [input_state EXCEPT
        !.pressed[action] = pressed /\ ~was_pressed,
        !.released[action] = ~pressed /\ was_pressed,
        !.actions[action] =
            IF pressed
            THEN IF ~was_pressed THEN TRUE
                 ELSE current_time - input_state.last_press_time[action] >= INPUT_INTERVAL_MS
            ELSE FALSE,
        !.last_press_time[action] =
            IF pressed /\ (~was_pressed \/ current_time - @ >= INPUT_INTERVAL_MS)
            THEN current_time ELSE @]

update_action_state(input_state, action, pressed, current_time) ==
    ActionState(input_state, action, pressed, current_time, input_state.actions[action])

\* the keyboard loop of GamepadManager.update: one call per mapped action
RECURSIVE KeyLoop(_, _, _, _)
KeyLoop(input_state, todo, keys, current_time) ==
    IF todo = {} THEN input_state
    ELSE KeyLoop(update_action_state(input_state, CHOOSE a \in todo : TRUE,
                                     (CHOOSE a \in todo : TRUE) \in keys, current_time),
                 todo \ {CHOOSE a \in todo : TRUE}, keys, current_time)

gamepad_update(Keys, Steps) ==
    \E keys \in Keys, dt \in Steps :
        /\ manager' = [manager EXCEPT !.input_state = KeyLoop(@, Action, keys, now + dt)]
        /\ now' = now + dt
        /\ call' = [NoCall EXCEPT !.op = "gamepad_update", !.input = keys, !.time = now + dt]
        /\ calls' = calls + 1
        /\ UNCHANGED <<game, events, hung, lastLock, cpu>>

----------------------------------------------------------------------------
(* SpecKeys: the keyboard of player 1 over a few frames, 16 ms or a full   *)
(* repeat interval apart, with no key, one key or two keys down.           *)

MaxKeyFrames == 4

FrameStep == 16        \* one frame at 60 frames per second

KeySets == {{}, {MOVE_LEFT}, {HARD_DROP}, {MOVE_LEFT, HARD_DROP}}

KeysUpdate ==
    /\ calls < MaxKeyFrames
    /\ gamepad_update(KeySets, {FrameStep, INPUT_INTERVAL_MS})

KeysNext == KeysUpdate

SpecKeys == InputInit /\ [][KeysNext]_vars

----------------------------------------------------------------------------
(* SpecRound: rounds that start_game has just started for every choice of  *)
(* HUMAN and OFF players with at least one player, through their first     *)
(* gameplay frames.                                                        *)

MaxRoundFrames == 2

RoundInputs == {{}, {ROTATE_CW}, {HARD_DROP}}

RoundModes == [1..3 -> {HUMAN, OFF}]

RoundInit == start_game(RoundModes, MatchKinds)

RoundFrame ==
    /\ ~hung /\ calls < MaxRoundFrames
    /\ update_gameplay(RoundInputs, {ShortStep, LongStep}, MatchKinds, MatchHoleCols)

RoundNext == RoundFrame

SpecRound == RoundInit /\ [][RoundNext]_vars

----------------------------------------------------------------------------
(* Properties *)

\* the session was running when the last call was made, and the call returned
Ran(op) == call.op = op /\ ~hung

GravityDue(g, current_time) == current_time - g.last_drop_time >= g.drop_interval

\* the grid _lock_piece handed to clear_lines in the last lock
LockedGrid == place_piece(lastLock.before, lastLock.piece)

KeptRows(grid) == SelectSeq(grid, LAMBDA row : ~RowFull(row))

\* C1: after Board.clear_lines() the grid has exactly `height` rows, none of
\* them fully occupied: k new empty rows on top (k = number of rows that were
\* full) followed by exactly the rows that were not full, in their original
\* order and with unchanged content, for any number of full rows.
C1_ClearLinesKeepsExactlyTheNonFullRows ==
    (lastLock.n > 0 /\ ~hung) =>
        /\ Len(game.board) = BOARD_HEIGHT
        /\ \A y \in 1..Len(game.board) : ~RowFull(game.board[y])
        /\ game.board =
              [i \in 1..(Len(LockedGrid) - Len(KeptRows(LockedGrid))) |-> EmptyRow]
                  \o KeptRows(LockedGrid)

\* C2: every call to update terminates (the ghost recomputation that follows
\* every committed move, rotation, spawn and hold always finishes).
C2_UpdateTerminates == call.op = "update" => ~hung

\* C3: get_best_move terminates for every active piece kind and every board
\* (each rotation state x horizontal offset is tried once and each trial's
\* drop loop ends): no frame is left waiting for the search.
C3_GetBestMoveTerminates == call.search # "diverged"

\* C4: in a computer-controlled session the action written into the input
\* snapshot is applied by update as a human request is: a suggested hard_drop
\* drops and locks the active piece in that update, and a suggested left or
\* right shifts it by one cell when the shifted position is valid.
C4_CpuSuggestionIsApplied ==
    [][ (call'.op = "cpu_frame" /\ ~hung' /\ game.mode = CPU) =>
          /\ (call'.input = {HARD_DROP} /\ can_perform_action(game, HARD_DROP, call'.time)) =>
                (events'.hard_drop /\ events'.piece_locked)
          /\ \A side \in {<<MOVE_LEFT, -1>>, <<MOVE_RIGHT, 1>>} :
                (/\ call'.input = {side[1]}
                 /\ can_perform_action(game, side[1], call'.time)
                 /\ is_valid_position(game.board, Moved(game.current_piece, side[2], 0))
                 /\ lastLock'.n = 0) =>
                    (events'.piece_moved /\ game'.current_piece.x = game.current_piece.x + side[2])
      ]_vars

\* C5: whenever the session is not GAME_OVER the active piece is in a valid
\* position (no cell on a filled cell or outside [0,width) x (-inf,height)).
C5_ActivePieceValid ==
    (~hung /\ ~game.game_over) => is_valid_position(game.board, game.current_piece)

\* C6: a ghost piece that is present has the active piece's kind, x and
\* rotation, is not above the active piece, is valid, and is invalid one cell
\* lower, whether or not the last call ended the game.
C6_GhostIsLowestDrop ==
    (~hung /\ game.ghost_piece # NoPiece) =>
        /\ game.ghost_piece.type = game.current_piece.type
        /\ game.ghost_piece.x = game.current_piece.x
        /\ game.ghost_piece.rotation = game.current_piece.rotation
        /\ game.ghost_piece.y >= game.current_piece.y
        /\ is_valid_position(game.board, game.ghost_piece)
        /\ ~is_valid_position(game.board, Moved(game.ghost_piece, 0, 1))

\* C7: get_blocks returns exactly 4 distinct cells for the active piece in
\* whatever kind, rotation and position it is, so a lock writes at most 4 cells.
C7_PieceHasFourCells ==
    ~hung =>
        /\ Cardinality(get_blocks(game.current_piece)) = 4
        /\ lastLock.n > 0 => Cardinality(get_blocks(lastLock.piece)) <= 4

\* C8: between two locks at most one hold takes effect: once can_hold is
\* false, a hold request changes neither the active, held and queued pieces
\* nor can_hold and emits no piece_held, whatever the debounce state; a hold
\* that takes effect finds can_hold true and leaves it false; can_hold turns
\* true again only in a call that locks a piece (or in reset).
C8_HoldOncePerPieceLifetime ==
    [][ /\ (call'.op = "update" /\ ~hung' /\ lastLock'.n = 0) =>
              /\ (~game.can_hold /\ call'.input = {HOLD}) =>
                    /\ ~events'.piece_held
                    /\ game'.held_piece = game.held_piece
                    /\ game'.next_piece = game.next_piece
                    /\ game'.current_piece \in {game.current_piece, Moved(game.current_piece, 0, 1)}
                    /\ game'.last_move_time[HOLD] = game.last_move_time[HOLD]
              /\ events'.piece_held => (game.can_hold /\ ~game'.can_hold)
        /\ (~game.can_hold /\ game'.can_hold) => (lastLock'.n > 0 \/ call'.op = "reset")
      ]_vars

\* C8 witness: a hold request made with can_hold false and the debounce
\* interval elapsed has returned without a hold
C8_Witness ==
    /\ Ran("update") /\ call.input = {HOLD}
    /\ ~game.game_over /\ ~game.paused /\ lastLock.n = 0
    /\ call.time - game.last_move_time[HOLD] >= INPUT_INTERVAL_MS
    /\ game.held_piece # NoPiece /\ ~game.can_hold /\ ~events.piece_held

\* C9: a rotation request on an O-piece leaves its position unchanged on any
\* board (only the identity offset is tried); the same update's gravity step
\* may still lower it by one cell.
C9_OPieceRotationKeepsPosition ==
    [][ (/\ call'.op = "update" /\ ~hung' /\ lastLock'.n = 0
         /\ call'.input \in {{ROTATE_CW}, {ROTATE_CCW}}
         /\ game.current_piece.type = "O") =>
            /\ game'.current_piece.x = game.current_piece.x
            /\ game'.current_piece.y = game.current_piece.y
                  + (IF GravityDue(game, call'.time) /\ game'.current_piece.y # game.current_piece.y
                     THEN 1 ELSE 0)
      ]_vars

\* a rotation request that update acts on and that finds no valid kick offset
RejectedRotation(action, clockwise) ==
    /\ call'.op = "update" /\ call'.input = {action}
    /\ game.mode = HUMAN /\ ~game.game_over /\ ~game.paused
    /\ can_perform_action(game, action, call'.time)
    /\ ValidKicks(game.board, game.current_piece, clockwise) = {}

\* C10: a rotation request that finds no kick offset for which the rotated
\* piece is valid is rejected: no piece_rotated event, the action's debounce
\* timestamp unchanged, and the active piece, the ghost and the board as they
\* were (the whole session unchanged when gravity is not due in that update).
C10_RejectedRotationChangesNothing ==
    [][ \A action \in {ROTATE_CW, ROTATE_CCW} :
          RejectedRotation(action, action = ROTATE_CW) =>
            /\ ~hung'
            /\ ~events'.piece_rotated
            /\ game'.last_move_time[action] = game.last_move_time[action]
            /\ ~GravityDue(game, call'.time) => (game' = game /\ events' = NoEvents)
            /\ lastLock'.n = 0 =>
                  /\ game'.board = game.board
                  /\ game'.current_piece \in {game.current_piece, Moved(game.current_piece, 0, 1)}
                  /\ game'.ghost_piece = game.ghost_piece
      ]_vars

\* C10 witness: a rotation request with the debounce interval elapsed has
\* returned without a rotation, a lock or a gravity step
C10_Witness ==
    /\ Ran("update") /\ call.input = {ROTATE_CW}
    /\ ~game.game_over /\ ~game.paused /\ lastLock.n = 0
    /\ call.time - game.last_move_time[ROTATE_CW] >= INPUT_INTERVAL_MS
    /\ ~events.piece_rotated
    /\ ValidKicks(game.board, game.current_piece, TRUE) = {}
    /\ call.time > game.last_drop_time

\* the kick-table entry for (piece group, r -> r') of a rotation request
KickEntry(piece, action) ==
    WALL_KICK_DATA[IF piece.type = "I" THEN "I" ELSE "JLSTZ"]
                  [<<piece.rotation, (piece.rotation + (IF action = ROTATE_CW THEN 1 ELSE -1)) % 4>>]

\* piece in rotation state r' at the offset off from where it is
RotatedAt(piece, action, off) ==
    [piece EXCEPT !.rotation = (@ + (IF action = ROTATE_CW THEN 1 ELSE -1)) % 4,
                  !.x = @ + off[1], !.y = @ + off[2]]

\* C11: a rotation request from state r (CW: to (r+1) mod 4, CCW: to (r-1)
\* mod 4) commits the new rotation at (x+dx, y+dy) where (dx,dy) is the first
\* offset, in table order, of the kick-table entry for (piece group, r->r')
\* for which the rotated piece is valid; no later offset is committed when an
\* earlier one is valid, and rotation and position are updated together (the
\* same update's gravity step may then lower the piece by one cell).
C11_RotationCommitsFirstValidKick ==
    [][ \A action \in {ROTATE_CW, ROTATE_CCW} :
          (/\ call'.op = "update" /\ call'.input = {action}
           /\ game.mode = HUMAN /\ ~game.game_over /\ ~game.paused
           /\ can_perform_action(game, action, call'.time)
           /\ \E i \in 1..Len(KickEntry(game.current_piece, action)) :
                 is_valid_position(game.board,
                     RotatedAt(game.current_piece, action, KickEntry(game.current_piece, action)[i]))
           /\ lastLock'.n = 0) =>
             \E i \in 1..Len(KickEntry(game.current_piece, action)) :
                /\ is_valid_position(game.board,
                       RotatedAt(game.current_piece, action, KickEntry(game.current_piece, action)[i]))
                /\ \A j \in 1..(i - 1) :
                       ~is_valid_position(game.board,
                           RotatedAt(game.current_piece, action, KickEntry(game.current_piece, action)[j]))
                /\ \/ game'.current_piece =
                          RotatedAt(game.current_piece, action, KickEntry(game.current_piece, action)[i])
                   \/ /\ GravityDue(game, call'.time) /\ ~hung'
                      /\ game'.current_piece =
                            Moved(RotatedAt(game.current_piece, action,
                                            KickEntry(game.current_piece, action)[i]), 0, 1)
                /\ ~hung' => events'.piece_rotated
      ]_vars

\* C11 witness: a rotation has been committed at an offset other than the
\* identity (the only calls of SpecKick that change x are kicked rotations)
C11_Witness ==
    /\ Ran("update") /\ call.input \in {{ROTATE_CW}, {ROTATE_CCW}}
    /\ events.piece_rotated /\ lastLock.n = 0
    /\ game.current_piece.x # TETROMINOS[game.current_piece.type].spawn[1]

\* C12: if the session is GAME_OVER or paused when update is called, update
\* returns an empty event set and leaves every field of the session unchanged
\* (board, active/queued/held/ghost pieces, score, level, lines cleared,
\* statistics, can_hold, gravity timer and debounce timestamps), whatever the
\* input snapshot and the elapsed time.
C12_UpdateOnStoppedSessionChangesNothing ==
    [][ (call'.op = "update" /\ (game.game_over \/ game.paused)) =>
            (~hung' /\ events' = NoEvents /\ game' = game /\ lastLock'.n = 0)
      ]_vars

\* C12 witness: an update with HARD_DROP pressed, its debounce interval
\* elapsed and gravity due has returned no event on a session that is over
C12_Witness ==
    /\ Ran("update") /\ call.input = {HARD_DROP}
    /\ game.game_over /\ ~game.paused
    /\ can_perform_action(game, HARD_DROP, call.time)
    /\ GravityDue(game, call.time)
    /\ events = NoEvents

\* the number of full rows the lock of `piece` on `grid` produces
LinesOf(grid, piece) ==
    Cardinality({y \in 1..Len(grid) : RowFull(place_piece(grid, piece)[y])})

\* the per-line base score: 1 -> 100, 2 -> 300, 3 -> 500, 4 -> 800
BaseScore(n) == IF n = 1 THEN 100 ELSE IF n = 2 THEN 300 ELSE IF n = 3 THEN 500
                ELSE IF n = 4 THEN 800 ELSE 0

\* the points of the drop the call's snapshot asked for: 2 per cell of a
\* hard drop, 1 for a soft drop step
DropPoints ==
    IF call'.input = {HARD_DROP} /\ can_perform_action(game, HARD_DROP, call'.time)
    THEN 2 * (lastLock'.piece.y - game.current_piece.y)
    ELSE IF events'.soft_drop THEN 1 ELSE 0

\* the call locked exactly one piece, the piece that was active before it
OneLock == call'.op = "update" /\ ~hung' /\ lastLock'.n = 1

\* C13: a lock that clears n lines, n in {1,2,3,4}, adds exactly base(n) x
\* level to the score with base = 100, 300, 500, 800 and level the level in
\* effect before this lock's level-up check, and increments exactly the one
\* matching statistic (singles, doubles, triples, tetrises) by 1; a lock that
\* clears no line adds no line-clear score and changes none of the four.
C13_LineClearScoreAndStatistic ==
    [][ OneLock =>
          /\ game'.score = game.score + DropPoints
                               + BaseScore(LinesOf(game.board, lastLock'.piece)) * game.level
          /\ game'.stats.singles = game.stats.singles
                + (IF LinesOf(game.board, lastLock'.piece) = 1 THEN 1 ELSE 0)
          /\ game'.stats.doubles = game.stats.doubles
                + (IF LinesOf(game.board, lastLock'.piece) = 2 THEN 1 ELSE 0)
          /\ game'.stats.triples = game.stats.triples
                + (IF LinesOf(game.board, lastLock'.piece) = 3 THEN 1 ELSE 0)
          /\ game'.stats.tetrises = game.stats.tetrises
                + (IF LinesOf(game.board, lastLock'.piece) = 4 THEN 1 ELSE 0)
      ]_vars

\* C13 witness: a lock at a level above 1 has cleared three lines
C13_Witness ==
    /\ Ran("update") /\ lastLock.n = 1
    /\ Len(lastLock.cleared) = 3 /\ lastLock.level > 1
    /\ game.stats.triples = 1

\* max(50, floor(800 x 0.9^(level-1))) for level = 1..40, in exact arithmetic
IntervalAtLevel ==
    << 800, 720, 648, 583, 524, 472, 425, 382, 344, 309,
       278, 251, 225, 203, 183, 164, 148, 133, 120, 108,
       97, 87, 78, 70, 63, 57, 51, 50, 50, 50,
       50, 50, 50, 50, 50, 50, 50, 50, 50, 50 >>

\* the lock of the call brought the total of lines cleared to level x 10 or more
ReachedNextLevel ==
    /\ OneLock
    /\ LinesOf(game.board, lastLock'.piece) > 0
    /\ game.lines_cleared + LinesOf(game.board, lastLock'.piece) >= game.level * 10

\* C14: whenever a lock brings the total lines cleared to at least level x 10,
\* the level increases by exactly 1, a level_up event is emitted, and the drop
\* interval becomes max(MIN_DROP_INTERVAL, floor(DROP_INTERVAL_MS x
\* 0.9^(level-1))) for the new level; on every level_up the drop interval
\* strictly decreases and it never falls below the configured floor (50 ms).
C14_LevelUpStrictlySpeedsUp ==
    [][ ReachedNextLevel =>
          /\ game'.level = game.level + 1
          /\ events'.level_up
          /\ game'.drop_interval = IntervalAtLevel[game'.level]
          /\ game'.drop_interval < game.drop_interval
          /\ game'.drop_interval >= 50
      ]_vars

\* C14 as amended: the same, except that on a level_up the drop interval
\* strictly decreases only while it is above the floor; once it is at the
\* floor (from level 28 on) it stays there.
C14_LevelUpSpeedsUpDownToFloor ==
    [][ ReachedNextLevel =>
          /\ game'.level = game.level + 1
          /\ events'.level_up
          /\ game'.drop_interval = IntervalAtLevel[game'.level]
          /\ game'.drop_interval <= game.drop_interval
          /\ game.drop_interval > 50 => game'.drop_interval < game.drop_interval
          /\ game'.drop_interval >= 50
      ]_vars

\* C14 witness: a lock has raised the level to 28, where the drop interval
\* reaches the floor from 51 ms
C14_Witness ==
    /\ Ran("update") /\ lastLock.n = 1 /\ events.level_up
    /\ lastLock.level = 27 /\ game.level = 28
    /\ game.drop_interval = MIN_DROP_INTERVAL

\* a hard drop request that update acts on, with an I-piece at its spawn
\* position on an empty board
HardDropOfIOnEmptyBoard ==
    /\ call'.op = "update" /\ call'.input = {HARD_DROP}
    /\ game.mode = HUMAN /\ ~game.game_over /\ ~game.paused
    /\ can_perform_action(game, HARD_DROP, call'.time)
    /\ game.board = TetrisBoard
    /\ game.current_piece = Tetromino("I", 3, 0)

\* the piece's four cells are in the bottom row and nothing else is on the board
LockedInBottomRow(grid) ==
    /\ Cardinality({x \in 1..BOARD_WIDTH : grid[BOARD_HEIGHT][x] # None}) = 4
    /\ \A y \in 1..(BOARD_HEIGHT - 1) : grid[y] = EmptyRow

\* C15: on an empty 10x20 board with an I-piece active at its spawn position,
\* a hard drop locks the piece's four cells in the bottom row (y = 19),
\* increases the score by exactly 2 x 19 = 38 with no line-clear bonus, and
\* makes the previously queued piece the active piece.
C15_HardDropOfIScores38 ==
    [][ HardDropOfIOnEmptyBoard =>
          /\ ~hung'
          /\ LockedInBottomRow(game'.board)
          /\ game'.score = game.score + 38
          /\ game'.current_piece.type = game.next_piece.type
      ]_vars

\* C15 as amended: the same hard drop locks the four cells in the bottom row,
\* makes the queued piece active and increases the score by exactly
\* 2 x 18 = 36: at spawn the I-piece's cells are in row y = 1 of the board
\* (the second row of its mask), 18 rows above the bottom row.
C15_HardDropOfIScores36 ==
    [][ HardDropOfIOnEmptyBoard =>
          /\ ~hung'
          /\ LockedInBottomRow(game'.board)
          /\ game'.score = game.score + 36
          /\ game'.current_piece.type = game.next_piece.type
      ]_vars

\* C15 witness: an I-piece hard-dropped from its spawn position has locked
\* on the bottom row of a board that was empty
C15_Witness ==
    /\ Ran("update") /\ call.input = {HARD_DROP} /\ events.hard_drop
    /\ lastLock.n = 1 /\ lastLock.before = TetrisBoard
    /\ lastLock.piece = [Tetromino("I", 3, 0) EXCEPT !.y = 18]
    /\ game.score = 36

\* C16: after pause followed by resume, the gravity timer and every
\* per-action debounce timestamp equal their pre-pause values shifted forward
\* by the pause duration (they are not reset): the time already accumulated
\* toward the next forced descent is preserved, and the paused time counts
\* toward neither the drop interval nor any action's debounce interval.
C16_ResumeShiftsTimersByPauseDuration ==
    [][ (call.op = "pause" /\ call'.op = "resume") =>
          /\ game'.last_drop_time = game.last_drop_time + (call'.time - call.time)
          /\ \A a \in Action :
                game'.last_move_time[a] = game.last_move_time[a] + (call'.time - call.time)
      ]_vars

\* C17: whenever a lock or a garbage insertion has completed and the board's
\* topmost row (y = 0) contains an occupied cell (Board.is_game_over() is
\* true), the session is in GAME_OVER.
C17_TopRowOccupiedIsGameOver ==
    (/\ ~hung
     /\ \/ call.op = "update" /\ lastLock.n > 0
        \/ call.op = "add_garbage" /\ call.lines > 0
     /\ is_game_over(game.board)) => game.game_over

\* the rows add_garbage_lines(count) appended to a board that had `height` rows
NewRows(grid, count) == SubSeq(grid, Len(grid) - count + 1, Len(grid))

\* C18: for every count k > 0, including k larger than the board height,
\* add_garbage_lines(k) leaves the grid with exactly `height` rows of `width`
\* cells, and each of the newly appended bottom rows has exactly one empty
\* cell and width-1 filled cells (no garbage row is immediately clearable).
C18_GarbageKeepsBoardHeight ==
    [][ (call'.op = "add_garbage" /\ call'.lines > 0 /\ ~game.game_over) =>
          /\ Len(game'.board) = BOARD_HEIGHT
          /\ \A y \in 1..Len(game'.board) : Len(game'.board[y]) = BOARD_WIDTH
          /\ \A i \in 1..Len(NewRows(game'.board, Min(call'.lines, Len(game'.board)))) :
                Cardinality({x \in 1..BOARD_WIDTH :
                    NewRows(game'.board, Min(call'.lines, Len(game'.board)))[i][x] = None}) = 1
      ]_vars

\* C19: add_garbage(lines) called on a session that is already GAME_OVER, or
\* with lines <= 0, returns false and leaves the board, the active and ghost
\* pieces, the statistics (including garbage_received) and the game-over flag
\* unchanged; it never raises.
C19_RejectedGarbageChangesNothing ==
    [][ (call'.op = "add_garbage" /\ (game.game_over \/ call'.lines <= 0)) =>
          /\ ~call'.ret
          /\ ~hung'
          /\ game'.board = game.board
          /\ game'.current_piece = game.current_piece
          /\ game'.ghost_piece = game.ghost_piece
          /\ game'.stats = game.stats
          /\ game'.game_over = game.game_over
          /\ game' = game
      ]_vars

\* C19 witness: a 17-row attack has been rejected on a session that an
\* attack of 21 rows, the only rows it ever received, had ended
C19_Witness ==
    /\ call.op = "add_garbage" /\ call.lines = 17 /\ ~call.ret /\ ~hung
    /\ game.game_over
    /\ game.stats.garbage_received = BOARD_HEIGHT + 1

\* an occupied cell that is outside [0,width) x (-inf,height) or, having
\* y >= 0, on a filled cell of the grid
RejectingCell(grid, b) ==
    \/ b[1] < 0
    \/ b[1] >= BOARD_WIDTH
    \/ b[2] >= BOARD_HEIGHT
    \/ b[2] >= 0 /\ grid[b[2] + 1][b[1] + 1] # None

\* C20: for every board and every piece (any kind, rotation and integer
\* position, including positions with cells above the grid),
\* is_valid_position returns false iff some occupied cell of the piece has
\* x < 0, x >= width or y >= height, or lies on a filled board cell with
\* y >= 0; cells with y < 0 inside the horizontal bounds are never a reason
\* for rejection.
C20_ValidPositionRejectsExactlyTheCollisions ==
    call.op = "is_valid_position" =>
        /\ ~call.ret <=> \E b \in get_blocks(call.piece) : RejectingCell(game.board, b)
        /\ (\A b \in get_blocks(call.piece) :
                b[2] < 0 /\ 0 <= b[1] /\ b[1] < BOARD_WIDTH) => call.ret

\* C20 witness: a piece with a cell above the grid and another resting on a
\* filled cell of a garbage row has been accepted
C20_Witness ==
    /\ call.op = "is_valid_position" /\ call.ret
    /\ \E b \in get_blocks(call.piece) : b[2] < 0
    /\ \E b \in get_blocks(call.piece) :
         /\ b[2] >= 0 /\ b[2] + 2 <= Len(game.board)
         /\ game.board[b[2] + 2][b[1] + 1] # None

\* the indices (0-based, as in the source) of the full rows of grid
FullRowIndices(grid) == {y \in 0..(Len(grid) - 1) : RowFull(grid[y + 1])}

\* C21: Board.clear_lines() returns exactly the indices of the rows that were
\* fully occupied immediately before the call, each once, in ascending
\* (top-to-bottom) order of their original positions; it returns the empty
\* list iff no row was full, in which case the grid is unchanged.
C21_ClearLinesReturnsFullRowsAscending ==
    lastLock.n > 0 =>
        /\ {lastLock.cleared[i] : i \in 1..Len(lastLock.cleared)} = FullRowIndices(LockedGrid)
        /\ \A i, j \in 1..Len(lastLock.cleared) :
               i < j => lastLock.cleared[i] < lastLock.cleared[j]
        /\ lastLock.cleared = << >> <=> FullRowIndices(LockedGrid) = {}
        /\ lastLock.cleared = << >> => game.board = LockedGrid

\* C21 witness: a lock has filled two or more rows and clear_lines has
\* returned their indices, the bottom row's last
C21_Witness ==
    /\ Ran("update") /\ lastLock.n > 0
    /\ Len(lastLock.cleared) >= 2
    /\ lastLock.cleared[Len(lastLock.cleared)] = BOARD_HEIGHT - 1
    /\ events.cleared_line_indices = lastLock.cleared

\* the event each action's block of _handle_input records
EventOf ==
    [a \in Action |->
        CASE a \in {MOVE_LEFT, MOVE_RIGHT} -> "piece_moved"
          [] a \in {ROTATE_CW, ROTATE_CCW} -> "piece_rotated"
          [] a = SOFT_DROP -> "soft_drop"
          [] a = HARD_DROP -> "hard_drop"
          [] a = HOLD -> "piece_held"]

\* update acts on the snapshot of the call, and action a, asserted in it, has
\* its debounce interval elapsed
Due(a) ==
    /\ call'.op = "update" /\ a \in call'.input
    /\ game.mode = HUMAN /\ ~game.game_over /\ ~game.paused
    /\ call'.time - game.last_move_time[a] >= INPUT_INTERVAL_MS

\* the mutation of action a is possible on the session as the call finds it
Possible(a) ==
    CASE a = MOVE_LEFT -> is_valid_position(game.board, Moved(game.current_piece, -1, 0))
      [] a = MOVE_RIGHT -> is_valid_position(game.board, Moved(game.current_piece, 1, 0))
      [] a = SOFT_DROP -> is_valid_position(game.board, Moved(game.current_piece, 0, 1))
      [] a = ROTATE_CW -> ValidKicks(game.board, game.current_piece, TRUE) # {}
      [] a = ROTATE_CCW -> ValidKicks(game.board, game.current_piece, FALSE) # {}
      [] a = HARD_DROP -> TRUE
      [] a = HOLD -> game.can_hold

\* C22: for each human action (move-left, move-right, soft-drop, rotate-cw,
\* rotate-ccw, hard-drop, hold), any two successful triggers of that action
\* in one Match are at least INPUT_INTERVAL_MS (120 ms) apart: a trigger
\* stamps the action with the time of the call and is accepted only when that
\* time is 120 ms or more after the stamp of its last trigger; an asserted
\* action whose mutation fails (blocked move, rejected rotation) emits no
\* event and does not refresh that action's trigger timestamp, and debounce
\* is tracked independently per action (no action's stamp changes in a call
\* that does not trigger that very action).
C22_TriggersOfAnActionAreDebounced ==
    [][ (call'.op = "update" /\ ~hung') =>
          \A a \in Action :
             /\ game'.last_move_time[a] \in {game.last_move_time[a], call'.time}
             /\ game'.last_move_time[a] # game.last_move_time[a] =>
                   /\ Due(a)
                   /\ events'[EventOf[a]]
             /\ (Due(a) /\ call'.input = {a}) =>
                   IF Possible(a)
                   THEN events'[EventOf[a]] /\ game'.last_move_time[a] = call'.time
                   ELSE ~events'[EventOf[a]] /\ game'.last_move_time[a] = game.last_move_time[a]
             /\ (a \in call'.input /\ ~Due(a) /\ call'.input = {a}) => ~events'[EventOf[a]]
      ]_vars

\* C22 witness: a move to the left was triggered, and the same request made
\* again ShortStep later has been refused although the piece could move
C22_Witness ==
    /\ Ran("update") /\ call.input = {MOVE_LEFT}
    /\ ~game.game_over /\ ~game.paused
    /\ game.last_move_time[MOVE_LEFT] = call.time - ShortStep
    /\ ~events.piece_moved
    /\ is_valid_position(game.board, Moved(game.current_piece, -1, 0))

\* C23: within a round (no reset), level is always >= 1 and never decreases,
\* lines_cleared never decreases, and level changes only in a lock that
\* cleared at least one line, increasing by exactly 1 (a call that locks
\* several pieces raises it by at most 1 per lock).
C23_LevelAndLinesOnlyGrow ==
    /\ [](game.level >= 1)
    /\ [][ call'.op # "reset" =>
              /\ game'.level >= game.level
              /\ game'.lines_cleared >= game.lines_cleared
              /\ game'.level # game.level =>
                    /\ call'.op = "update" /\ lastLock'.n > 0
                    /\ game'.lines_cleared > game.lines_cleared
                    /\ game'.level - game.level <= lastLock'.n
                    /\ lastLock'.n = 1 =>
                          /\ game'.level = game.level + 1
                          /\ Len(lastLock'.cleared) >= 1
       ]_vars

\* C23 witness: the lock of one piece has cleared four lines at level 1,
\* taking the total from 8 to 12 and the level to 2
C23_Witness ==
    /\ Ran("update") /\ lastLock.n = 1
    /\ Len(lastLock.cleared) = 4
    /\ lastLock.level = 1 /\ game.level = 2
    /\ game.lines_cleared = 12

\* C24: after constructing a Match, and after calling reset() from any
\* reachable state (including GAME_OVER or paused), score = 0,
\* lines_cleared = 0, level = 1, game_over = false, paused = false, no piece
\* is held, can_hold = true, the board is empty, the drop interval is the
\* initial 800 ms, every statistic is 0, and both an active piece (at its
\* spawn position, rotation 0, valid) and a queued piece are present.
C24_ConstructedOrResetSessionIsFresh ==
    call.op \in {"init", "reset"} =>
        /\ ~hung
        /\ game.score = 0 /\ game.lines_cleared = 0 /\ game.level = 1
        /\ ~game.game_over /\ ~game.paused
        /\ game.held_piece = NoPiece /\ game.can_hold
        /\ Len(game.board) = BOARD_HEIGHT
        /\ \A y \in 1..Len(game.board) :
               /\ Len(game.board[y]) = BOARD_WIDTH
               /\ \A x \in 1..BOARD_WIDTH : game.board[y][x] = None
        /\ game.drop_interval = 800
        /\ \A k \in DOMAIN game.stats : game.stats[k] = 0
        /\ game.current_piece.type \in Kinds
        /\ game.current_piece.x = TETROMINOS[game.current_piece.type].spawn[1]
        /\ game.current_piece.y = TETROMINOS[game.current_piece.type].spawn[2]
        /\ game.current_piece.rotation = 0
        /\ \A b \in get_blocks(game.current_piece) :
               0 <= b[1] /\ b[1] < BOARD_WIDTH /\ b[2] < BOARD_HEIGHT
        /\ game.next_piece.type \in Kinds

\* C24 witness: reset() has returned as the third call on a session, after
\* an update had advanced the clock
C24_Witness ==
    /\ call.op = "reset" /\ ~hung
    /\ calls = 3 /\ now > StartTime
    /\ game.score = 0 /\ game.board = TetrisBoard
    /\ game.current_piece.type = "T" /\ game.next_piece.type = "Z"

\* C25: get_best_move is pure with respect to the Match: for every game
\* state, calling it leaves the board grid, the active piece's position and
\* rotation, the ghost/queued/held pieces, the score and every other session
\* field unchanged (all trial placements are made on copies, never on the
\* active piece or the real grid).
C25_GetBestMoveLeavesSessionUnchanged ==
    [][ call'.op = "get_best_move" =>
          /\ game'.board = game.board
          /\ game'.current_piece = game.current_piece
          /\ game'.ghost_piece = game.ghost_piece
          /\ game'.next_piece = game.next_piece
          /\ game'.held_piece = game.held_piece
          /\ game'.score = game.score
          /\ game' = game
      ]_vars

\* C25 witness: get_best_move has returned on a session that has received
\* garbage and whose active piece is neither in rotation state 0 nor in its
\* spawn column
C25_Witness ==
    /\ call.op = "get_best_move" /\ call.search = "returned" /\ ~hung
    /\ game.stats.garbage_received > 0
    /\ game.current_piece.rotation # 0
    /\ game.current_piece.x # TETROMINOS[game.current_piece.type].spawn[1]

\* the snapshot of the call asks for nothing, or for one horizontal move
GravityOnly == call'.input \in {{}, {MOVE_LEFT}, {MOVE_RIGHT}}

\* the active piece as the input handling of the call leaves it for gravity
BeforeGravity ==
    IF Due(MOVE_LEFT) /\ Possible(MOVE_LEFT) THEN Moved(game.current_piece, -1, 0)
    ELSE IF Due(MOVE_RIGHT) /\ Possible(MOVE_RIGHT) THEN Moved(game.current_piece, 1, 0)
    ELSE game.current_piece

\* C26: in an update of a running Match in which the time since the last
\* forced descent (the descent timer) is >= the drop interval: if the active
\* piece can move down it descends exactly one cell and the descent timer is
\* set to the current time; otherwise the piece is locked.  In an update in
\* which less than the drop interval has elapsed, gravity neither moves nor
\* locks the piece: the timer stays, only a hard drop locks (unless that
\* lock's level-up shortens the drop interval to the elapsed time or less),
\* and an update without a due action changes nothing.
C26_GravityStepsOrLocksWhenDue ==
    [][ (/\ call'.op = "update" /\ ~hung'
         /\ game.mode = HUMAN /\ ~game.game_over /\ ~game.paused) =>
          IF call'.time - game.last_drop_time >= game.drop_interval
          THEN GravityOnly =>
                 IF is_valid_position(game.board, Moved(BeforeGravity, 0, 1))
                 THEN /\ game'.current_piece = Moved(BeforeGravity, 0, 1)
                      /\ game'.last_drop_time = call'.time
                      /\ lastLock'.n = 0 /\ ~events'.piece_locked
                      /\ game'.board = game.board
                 ELSE /\ lastLock'.n = 1 /\ lastLock'.piece = BeforeGravity
                      /\ events'.piece_locked
                      /\ game'.stats.pieces_placed = game.stats.pieces_placed + 1
          ELSE /\ call'.time - game.last_drop_time < game'.drop_interval =>
                     /\ game'.last_drop_time = game.last_drop_time
                     /\ lastLock'.n > 0 => (Due(HARD_DROP) /\ lastLock'.n = 1)
               /\ GravityOnly =>
                     /\ game'.current_piece = BeforeGravity
                     /\ game'.board = game.board
               /\ (\A a \in call'.input : ~Due(a)) => game' = game
      ]_vars

\* C26 witness: an update with nothing asserted has locked, by gravity, a
\* piece that rested on garbage rows
C26_Witness ==
    /\ Ran("update") /\ call.input = {}
    /\ lastLock.n = 1 /\ events.piece_locked /\ ~events.hard_drop
    /\ game.stats.garbage_received > 0
    /\ ~is_valid_position(lastLock.before, Moved(lastLock.piece, 0, 1))

\* the position the loop of _update_ghost_piece leaves for piece on grid: valid
\* from the piece's row down to it and invalid one cell lower; one row above
\* the piece when the piece itself is invalid
IsDropOf(grid, piece, ghost) ==
    /\ ghost # NoPiece
    /\ ghost = [piece EXCEPT !.y = ghost.y]
    /\ ghost.y >= piece.y - 1
    /\ \A y \in piece.y .. ghost.y : is_valid_position(grid, [piece EXCEPT !.y = y])
    /\ ~is_valid_position(grid, Moved(ghost, 0, 1))

\* an update whose last effect on the pieces is its one lock: a lock by
\* gravity, or a lock by a hard drop after which gravity was not due
LockEndsUpdate ==
    /\ call'.op = "update" /\ ~hung' /\ lastLock'.n = 1 /\ ~events'.piece_held
    /\ events'.hard_drop => game'.last_drop_time = game.last_drop_time

HoldAlone ==
    /\ call'.input = {HOLD} /\ Due(HOLD) /\ game.can_hold /\ ~hung'
    /\ call'.time - game.last_drop_time < game.drop_interval

\* C28: a hold with no held piece stores the active piece's kind as held and
\* makes the queued piece the active piece, and a new queued piece is
\* generated; a hold with a held piece makes the held kind the active piece
\* at the spawn position of that kind with rotation 0, stores the former
\* active kind as held and leaves the queued piece unchanged.  In both cases
\* the board, the score, the level and the lines cleared are unchanged and
\* can_hold becomes false.
C28_HoldStoresOrSwaps ==
    [][ HoldAlone =>
          /\ game'.held_piece.type = game.current_piece.type
          /\ IF game.held_piece = NoPiece
             THEN /\ game'.current_piece = game.next_piece
                  /\ game'.next_piece # NoPiece /\ game'.next_piece.type \in Kinds
                  /\ game'.next_piece = AtSpawn(game'.next_piece.type,
                                                TETROMINOS[game'.next_piece.type].spawn)
             ELSE /\ game'.current_piece = AtSpawn(game.held_piece.type,
                                                   TETROMINOS[game.held_piece.type].spawn)
                  /\ game'.current_piece.rotation = 0
                  /\ game'.next_piece = game.next_piece
          /\ game'.board = game.board
          /\ game'.score = game.score
          /\ game'.level = game.level
          /\ game'.lines_cleared = game.lines_cleared
          /\ ~game'.can_hold
          /\ events'.piece_held /\ lastLock'.n = 0 ]_vars

\* the I-piece the session started with, held first and then swapped back
\* after the O-piece was locked, is active again at its spawn position, and
\* the L-piece that was active is held
C28_Witness ==
    /\ Ran("update") /\ call.input = {HOLD} /\ events.piece_held /\ lastLock.n = 0
    /\ game.stats.pieces_placed = 1
    /\ game.current_piece = AtSpawn("I", TETROMINOS["I"].spawn)
    /\ game.held_piece.type = "L"
    /\ game.next_piece.type = "L"
    /\ ~game.can_hold

DxOf(a) == IF a = MOVE_LEFT THEN -1 ELSE 1

\* the active piece as the move block of action a leaves it
AfterMove(a) ==
    IF is_valid_position(game.board, Moved(game.current_piece, DxOf(a), 0))
    THEN Moved(game.current_piece, DxOf(a), 0)
    ELSE game.current_piece

\* C29: a move-left or move-right trigger changes the active piece's x by
\* exactly -1 or +1 iff the shifted piece is in a valid position, and the move
\* itself leaves y and rotation unchanged (a descent in the same update is
\* gravity's); if the shifted piece is invalid the piece is unchanged and no
\* piece_moved event is emitted.
C29_SideMoveCommitsIffValid ==
    [][ \A a \in {MOVE_LEFT, MOVE_RIGHT} :
          (Due(a) /\ call'.input = {a} /\ ~hung') =>
             /\ events'.piece_moved <=>
                    is_valid_position(game.board, Moved(game.current_piece, DxOf(a), 0))
             /\ lastLock'.n = 0 =>
                    /\ game'.current_piece.x = AfterMove(a).x
                    /\ game'.current_piece.rotation = game.current_piece.rotation
                    /\ game'.current_piece.type = game.current_piece.type
                    /\ game'.current_piece.y \in {game.current_piece.y, game.current_piece.y + 1}
                    /\ game'.current_piece.y # game.current_piece.y =>
                          /\ call'.time - game.last_drop_time >= game.drop_interval
                          /\ game'.last_drop_time = call'.time
                    /\ game'.board = game.board
             /\ lastLock'.n > 0 =>
                    /\ lastLock'.n = 1 /\ lastLock'.piece = AfterMove(a)
                    /\ call'.time - game.last_drop_time >= game.drop_interval ]_vars

\* a due move to the left found the shifted piece blocked by the garbage rows:
\* no event, no stamp, and the piece is where it was
C29_Witness ==
    /\ Ran("update") /\ call.input = {MOVE_LEFT} /\ ~game.game_over /\ ~game.paused
    /\ call.time - game.last_move_time[MOVE_LEFT] >= INPUT_INTERVAL_MS
    /\ ~events.piece_moved /\ lastLock.n = 0 /\ game.last_drop_time # call.time
    /\ game.stats.garbage_received > 0
    /\ ~is_valid_position(game.board, Moved(game.current_piece, -1, 0))
    /\ is_valid_position(game.board, game.current_piece)

\* C30: add_garbage_lines(k) with 0 < k <= height discards the top k rows
\* whatever they hold and moves every remaining row up by k, keeping order and
\* content: for 0 <= i < height - k the new row i is the old row i + k, and
\* rows height - k .. height - 1 are the k new garbage rows, in the order in
\* which they were made.
C30_GarbageShiftsRowsUp ==
    [][ (/\ call'.op = "add_garbage" /\ ~game.game_over
         /\ 0 < call'.lines /\ call'.lines <= BOARD_HEIGHT) =>
          /\ \A i \in 1 .. BOARD_HEIGHT - call'.lines :
                game'.board[i] = game.board[i + call'.lines]
          /\ \A j \in 1 .. call'.lines :
                game'.board[BOARD_HEIGHT - call'.lines + j] = GarbageLine(call'.holes[j]) ]_vars

\* the active kind at column x in rotation state rotation comes to rest at row
\* y when dropped from the active piece's height
RestsAt(rotation, x, y) ==
    /\ \A yy \in game.current_piece.y .. y :
          is_valid_position(game.board,
              [game.current_piece EXCEPT !.rotation = rotation, !.x = x, !.y = yy])
    /\ ~is_valid_position(game.board,
              [game.current_piece EXCEPT !.rotation = rotation, !.x = x, !.y = y + 1])

\* C31: whenever get_best_move returns a placement (x, y, rotation), the
\* active kind placed at (x, y) with that rotation is a valid position on the
\* board, the same placement one cell lower is invalid, and y is not above the
\* active piece's current y; it returns none exactly when no pair of a
\* rotation and an offset yields such a resting position.
C31_BestMoveIsARestingPlacement ==
    (call.op = "get_best_move" /\ call.search = "returned" /\ ~hung) =>
        IF call.piece # NoPiece
        THEN /\ is_valid_position(game.board, call.piece)
             /\ ~is_valid_position(game.board, Moved(call.piece, 0, 1))
             /\ call.piece.y >= game.current_piece.y
        ELSE \A trial \in Trials :
                \A y \in game.current_piece.y .. BOARD_HEIGHT : ~RestsAt(trial[1], trial[2], y)

\* the number of rotations the plan starts with, and which
TurnsOf(rotation_diff) == IF rotation_diff = 3 THEN 1 ELSE rotation_diff

TurnOf(rotation_diff) == IF rotation_diff = 3 THEN "rotate_ccw" ELSE "rotate_cw"

PlanTurn == (call.piece.rotation - game.current_piece.rotation) % 4

PlanShift == call.piece.x - game.current_piece.x

\* C32: for a target (x_t, y_t, r_t) and an active piece at column x with
\* rotation r, the planner's action sequence is: no rotation if
\* (r_t - r) mod 4 = 0, one rotate_cw if it is 1, two rotate_cw if it is 2,
\* one rotate_ccw if it is 3; then exactly |x_t - x| horizontal moves, all
\* 'right' if x_t > x and all 'left' if x_t < x; then exactly one hard_drop,
\* which is the last action and appears nowhere else.
C32_PlanIsTurnsThenShiftsThenDrop ==
    call.op = "make_new_plan" =>
        /\ Len(cpu.current_plan) = TurnsOf(PlanTurn) + Abs(PlanShift) + 1
        /\ \A i \in 1 .. Len(cpu.current_plan) :
              cpu.current_plan[i] =
                 IF i <= TurnsOf(PlanTurn) THEN TurnOf(PlanTurn)
                 ELSE IF i < Len(cpu.current_plan)
                      THEN (IF PlanShift > 0 THEN "right" ELSE "left")
                      ELSE "hard_drop"
        /\ cpu.plan_step = 0

\* a plan for a piece that was turned three times and shifted: back to
\* rotation 0 with one rotate_cw, then more than one move to the left
C32_Witness ==
    /\ call.op = "make_new_plan" /\ ~hung
    /\ game.current_piece.rotation = 3 /\ call.piece.rotation = 0
    /\ call.piece.x < game.current_piece.x - 1
    /\ Len(cpu.current_plan) >= 4
    /\ cpu.current_plan[1] = "rotate_cw" /\ cpu.current_plan[2] = "left"
    /\ cpu.current_plan[Len(cpu.current_plan)] = "hard_drop"

\* the frame is a decision tick: the coordinator calls cpu.update
Ticks == call'.op = "cpu_frame" /\ call'.time - cpu.last_think_time > CPU_MOVE_MS

\* C33: once the controller has made a plan, its successive decision ticks
\* return the plan's actions in order, exactly one action per tick, and the
\* plan is carried through to its final hard_drop before a new plan replaces
\* it, under the coordinator's cadence (a tick at most once per CPU_MOVE_MS,
\* re-planning interval 500 ms); between ticks the plan is not touched.
C33_PlanIsCarriedThrough ==
    [][ (call'.op = "cpu_frame" /\ ~hung') =>
          IF Ticks
          THEN ~PlanDone(cpu) =>
                  /\ cpu'.current_plan = cpu.current_plan
                  /\ cpu'.plan_step = cpu.plan_step + 1
                  /\ call'.input = simulate_cpu_input(cpu.current_plan[cpu.plan_step + 1])
          ELSE /\ cpu'.current_plan = cpu.current_plan
               /\ cpu'.plan_step = cpu.plan_step
               /\ call'.input = {} ]_vars

\* C34: in a frame of the coordinator, a session whose update reports n
\* cleared lines attacks with 0 rows for n <= 1, 1 row for n = 2, 2 rows for
\* n = 3 and 4 rows for n = 4; an attack of a > 0 rows calls add_garbage(a) once
\* on every other session that is not OFF and not game-over, never on the
\* attacker; without an attack no session receives garbage, and a session
\* the frame skips is left as it was.
Players == <<game>> \o manager.games

AttackFor(n) == CASE n = 2 -> 1 [] n = 3 -> 2 [] n = 4 -> 4 [] OTHER -> 0

TimesIn(seq, x) == Cardinality({k \in DOMAIN seq : seq[k] = x})

RECURSIVE RowsSentTo(_, _)
RowsSentTo(attacks, j) ==
    IF attacks = << >> THEN 0
    ELSE Head(attacks).lines * TimesIn(Head(attacks).to, j) + RowsSentTo(Tail(attacks), j)

C34_AttackReachesEveryOtherRunningSession ==
    [][ (call'.op = "update_gameplay" /\ ~hung') =>
          /\ \A i \in DOMAIN Players :
                TimesIn([k \in DOMAIN manager'.attacks |-> manager'.attacks[k].from], i)
                    = IF AttackFor(manager'.events[i].lines_cleared) > 0 THEN 1 ELSE 0
          /\ \A k \in DOMAIN manager'.attacks :
                /\ manager'.attacks[k].lines
                      = AttackFor(manager'.events[manager'.attacks[k].from].lines_cleared)
                /\ \A j \in DOMAIN Players :
                      /\ TimesIn(manager'.attacks[k].to, j) <= 1
                      /\ TimesIn(manager'.attacks[k].to, j) = 1 =>
                            /\ j # manager'.attacks[k].from
                            /\ Players[j].mode # OFF
                            /\ ~Players[j].game_over
                      /\ (TimesIn(manager'.attacks[k].to, j) = 0 /\ j # manager'.attacks[k].from) =>
                            Players[j].mode = OFF \/ Players'[j].game_over
          /\ \A j \in DOMAIN Players :
                /\ Players'[j].stats.garbage_received
                      = Players[j].stats.garbage_received + RowsSentTo(manager'.attacks, j)
                /\ (Players[j].mode = OFF \/ Players[j].game_over) => Players'[j] = Players[j] ]_vars

\* a frame in which three rows were cleared at once and the two rows of the
\* attack went to one player only, the third being game-over by then
C34_Witness ==
    /\ call.op = "update_gameplay" /\ ~hung
    /\ \E k \in DOMAIN manager.attacks :
          /\ manager.events[manager.attacks[k].from].lines_cleared = 3
          /\ manager.attacks[k].lines = 2
          /\ Len(manager.attacks[k].to) = 1
          /\ \E j \in DOMAIN Players :
                /\ j # manager.attacks[k].from
                /\ Players[j].mode # OFF /\ Players[j].game_over
                /\ TimesIn(manager.attacks[k].to, j) = 0

\* C35: after each input update, pressed[action] is true iff the key of the
\* action was up at the previous update and is down at this one.
C35_PressedIsRisingEdge ==
    [][ call'.op = "gamepad_update" =>
          \A a \in Action :
             manager'.input_state.pressed[a] = (a \in call'.input /\ a \notin call.input) ]_vars

\* C36: every lock places a piece that is in a valid position on the board
\* as it is before the placement (so no filled cell is overwritten) and that
\* cannot move down one cell.
C36_LockPlacesAValidRestingPiece ==
    lastLock.n > 0 =>
        /\ is_valid_position(lastLock.before, lastLock.piece)
        /\ ~is_valid_position(lastLock.before, [lastLock.piece EXCEPT !.y = @ + 1])

\* C37: once game_over is true it stays true and the board, the score, the
\* lines cleared, the level and the statistics are not modified until reset
\* is called; the update that sets game_over performs no lock after setting it.
C37_GameOverIsTerminal ==
    [][ /\ (game.game_over /\ call'.op # "reset") =>
              /\ game'.game_over
              /\ game'.board = game.board
              /\ game'.score = game.score
              /\ game'.lines_cleared = game.lines_cleared
              /\ game'.level = game.level
              /\ game'.stats = game.stats
        /\ ~lastLock'.over ]_vars

\* C38: at every lock at most 4 rows of the board are fully occupied once
\* the piece is placed, and the lock clears between 0 and 4 lines.
C38_LockClearsAtMostFourLines ==
    lastLock.n > 0 =>
        /\ Len(lastLock.cleared) <= 4
        /\ Cardinality({y \in DOMAIN lastLock.before :
                           \A x \in DOMAIN lastLock.before[y] :
                              place_piece(lastLock.before, lastLock.piece)[y][x] # None}) <= 4

\* C39: for the board and the valid resting placement of every lock, the
\* occupancy that _create_temp_board followed by _clear_lines produces equals
\* the occupancy of the real board after place_piece followed by clear_lines,
\* and _count_clearable_lines equals the length of the list clear_lines returns.
Occupancy(grid) == [y \in DOMAIN grid |-> [x \in DOMAIN grid[y] |-> grid[y][x] # None]]

C39_SimulatedLockAgreesWithRealLock ==
    ( /\ lastLock.n > 0
      /\ is_valid_position(lastLock.before, lastLock.piece)
      /\ ~is_valid_position(lastLock.before, [lastLock.piece EXCEPT !.y = @ + 1]) ) =>
        /\ ai_clear_lines(create_temp_board(lastLock.piece, lastLock.before))
              = Occupancy(clear_lines(place_piece(lastLock.before, lastLock.piece)).grid)
        /\ count_clearable_lines(create_temp_board(lastLock.piece, lastLock.before))
              = Len(clear_lines(place_piece(lastLock.before, lastLock.piece)).cleared_lines)

\* C40: the coordinator leaves PLAYING for GAME_OVER only in a frame in
\* which at least one session has become game-over; in particular a round
\* with one player stays in PLAYING until that player's session is game-over.
C40_RoundEndsOnlyWhenASessionEnds ==
    [][ (call'.op = "update_gameplay" /\ manager.state = PLAYING /\ manager'.state = GAME_OVER) =>
          \E i \in DOMAIN Players : ~Players[i].game_over /\ Players'[i].game_over ]_vars
====
